---- MODULE Spec2Model ----
(***************************************************************************)
(* ZingyBooks backend: the persisted records (User, Child, Story,          *)
(* Illustration, Order, OTP) and the request handlers that change them.    *)
(* Every handler is an operator from the current tables and the request    *)
(* to a result record [code, error, <tables it commits>]; the action of    *)
(* the handler installs the committed tables and records the response.     *)
(* Primary keys are autoincrement integers: a table is a sequence and the  *)
(* id of a row is its index (no handler deletes a row).  requests holds    *)
(* the requests that are served step by step, interleaved with others: the *)
(* position of each in its handler, what it has read, and its outcome.     *)
(*                                                                         *)
(* Specifications: Spec (content workflow up to the first order),          *)
(* SpecOrder (orders and payments), SpecAfterOrder (story requests on a    *)
(* story that has orders), SpecIllus (illustrations of two stories),       *)
(* SpecScenario (the walk from registration to a paid pdf order), SpecOtp  *)
(* (one-time passwords), SpecAuth (the requests that create users),        *)
(* SpecOrderedIllus (illustration requests on a story with orders),        *)
(* SpecRegen (illustrations regenerated as the clock advances), SpecFault  *)
(* (a commit or the collaborator failing inside a request), and the        *)
(* specifications of requests served at the same time: SpecOtpRace,        *)
(* SpecIllusRace and SpecOrderRace.                                        *)
(***************************************************************************)
EXTENDS Integers, Sequences, FiniteSets, TLC

VARIABLES users, children, stories, illustrations, orders, otps, now, resp,
          requests

vars == <<users, children, stories, illustrations, orders, otps, now, resp,
          requests>>

(***************************************************************************)
(* Bounds of the model.                                                    *)
(***************************************************************************)
\* pages the content collaborator returns (the template's first NumPages)
NumPages == 6
\* pages the content collaborator returns for the stories of SpecIllus
ShortStoryPages == 2
\* requests served step by step at the same time
MaxRequests == 2
\* themes random.choice draws from (the list's first NumThemes)
NumThemes == 2
\* rows of the Order table
MaxOrders == 1
\* rows of the OTP table
MaxOtps == 2
\* last instant of the clock, in minutes
MaxTime == 15
\* minutes between two instants of the clock
ClockStep == 5

(***************************************************************************)
(* Values.  A nullable column holds None or a value of the column's kind:  *)
(* NULL for string columns, <<>> for structured values (URLs, titles).     *)
(***************************************************************************)
NULL == "NULL"
None == <<>>

\* mutant: only a missing field is turned away (`x is None`)
Falsy_NoneOnly(v) == v = NULL

\* Python truthiness (`not x`) of a string field: None and "" are falsy
Falsy(v) == v \in {NULL, ""}

\* Python truthiness of an integer id field: missing and 0 are falsy
FalsyId(v) == v = 0

\* Query.get(id): whether the primary key exists
Exists(table, id) == id \in 1..Len(table)

(***************************************************************************)
(* Content generation collaborator (services/ai_services.py).              *)
(***************************************************************************)
story_themes ==
    <<"Magical Adventure", "Brave Quest", "Enchanted Journey",
      "Secret Mission", "Wonderful Discovery", "Amazing Expedition">>

Themes == {story_themes[i] : i \in 1..NumThemes}

\* page numbers of _magical_adventure_template: 1, 3..22, 24
TemplatePageNumbers ==
    <<1>> \o [i \in 1..20 |-> i + 2] \o <<24>>

\* every theme's template delegates to _magical_adventure_template; the model
\* keeps the template's first n_pages pages
_generate_story_pages(theme, n_pages) ==
    SubSeq(TemplatePageNumbers, 1, n_pages)

\* ChatGPTService.generate_story: title and summary from child name and theme
generate_story(child_name, theme, n_pages) ==
    [title   |-> <<"title", child_name, theme>>,
     summary |-> <<"summary", child_name, theme>>,
     pages   |-> _generate_story_pages(theme, n_pages)]

\* mutant: the collaborator offers a single candidate
generate_illustration_OneCandidate(story_id, page_number) ==
    << <<"leonardo", story_id, page_number, 1>> >>

\* LeonardoAIService.generate_illustration: the two candidate URLs
generate_illustration(story_id, page_number) ==
    << <<"leonardo", story_id, page_number, 1>>,
       <<"leonardo", story_id, page_number, 2>> >>

(***************************************************************************)
(* models/user.py                                                          *)
(***************************************************************************)
\* Story.set_pages_content: json.dumps of the page list (a non-empty string
\* even for the empty list)
set_pages_content(pages_list) == <<"json", pages_list>>

\* Story.get_pages_content: [] for a NULL/empty column, else json.loads
get_pages_content(story) ==
    IF story.pages_content = None THEN <<>> ELSE story.pages_content[2]

\* Illustration.set_leonardo_images
set_leonardo_images(images_list) == <<"json", images_list>>

\* Order.set_shipping_details
set_shipping_details(details) == <<"json", details>>

\* Order.get_shipping_details: {} for a NULL column
get_shipping_details(order) ==
    IF order.shipping_details = None THEN "" ELSE order.shipping_details[2]

\* mutant: the expiry instant itself already counts as expired
is_expired_AtExpiry(otp) == now >= otp.expires_at

\* OTP.is_expired
is_expired(otp) == now > otp.expires_at

(***************************************************************************)
(* Responses.                                                              *)
(***************************************************************************)
Response(op, r) == [op |-> op, code |-> r.code, error |-> r.error]

NoResponse == [op |-> "none", code |-> 0, error |-> ""]

(***************************************************************************)
(* routes/auth.py: register                                                *)
(***************************************************************************)
\* the e-mail strings requests carry in this model
EmailInputs == {"", "asha@zingy.in", " Asha@Zingy.IN ", "asha-at-zingy"}

\* str.lower().strip()
lower_strip(email) ==
    IF email = " Asha@Zingy.IN " THEN "asha@zingy.in" ELSE email

\* is_valid_email: the pattern local@domain.tld
is_valid_email(email) == email \in {"asha@zingy.in", "ravi@zingy.in"}

\* User.query.filter_by(email=email).first()
UserByEmail(email) ==
    IF \E i \in 1..Len(users) : users[i].email = email
    THEN CHOOSE i \in 1..Len(users) :
             /\ users[i].email = email
             /\ \A j \in 1..(i - 1) : users[j].email # email
    ELSE 0

register(email_in, name, password) ==
    LET email == lower_strip(email_in) IN
    IF Falsy(email_in) \/ Falsy(name)
    THEN [code |-> 400, error |-> "Email and name are required", users |-> users]
    ELSE IF ~is_valid_email(email)
    THEN [code |-> 400, error |-> "Invalid email format", users |-> users]
    ELSE IF UserByEmail(email) # 0
    THEN [code |-> 400, error |-> "User with this email already exists",
          users |-> users]
    ELSE [code |-> 201, error |-> "",
          users |-> Append(users,
              [email |-> email, name |-> name,
               password_hash |-> IF Falsy(password) THEN None
                                 ELSE <<"hash", password>>,
               google_id |-> NULL])]

Register(email_in, name, password) ==
    LET r == register(email_in, name, password) IN
    /\ users' = r.users
    /\ resp' = Response("register", r)
    /\ UNCHANGED <<requests, children, stories, illustrations, orders, otps, now>>

\* email.split('@')[0]
EmailPrefix(email) ==
    CASE email = "asha@zingy.in" -> "asha"
      [] email = "ravi@zingy.in" -> "ravi"
      [] OTHER -> email

(***************************************************************************)
(* routes/auth.py: external-identity login                                 *)
(***************************************************************************)
\* mutant: a user row is added at every login
google_auth_AlwaysInserts(email_in, google_id, name) ==
    LET email == lower_strip(email_in) IN
    IF Falsy(email_in) \/ Falsy(google_id)
    THEN [code |-> 400, error |-> "Email and Google ID are required",
          users |-> users]
    ELSE [code |-> 200, error |-> "",
          users |-> Append(users,
              [email |-> email,
               name |-> IF name = NULL THEN EmailPrefix(email) ELSE name,
               password_hash |-> None, google_id |-> google_id])]

\* POST /auth/google; name: the request's name, NULL when absent (last_login
\* is not part of the model's User row)
google_auth(email_in, google_id, name) ==
    LET email == lower_strip(email_in)
        user == UserByEmail(email)
    IN  IF Falsy(email_in) \/ Falsy(google_id)
        THEN [code |-> 400, error |-> "Email and Google ID are required",
              users |-> users]
        ELSE IF user # 0
        THEN [code |-> 200, error |-> "",
              users |-> IF Falsy(users[user].google_id)
                        THEN [users EXCEPT ![user].google_id = google_id]
                        ELSE users]
        ELSE [code |-> 200, error |-> "",
              users |-> Append(users,
                  [email |-> email,
                   name |-> IF name = NULL THEN EmailPrefix(email) ELSE name,
                   password_hash |-> None, google_id |-> google_id])]

GoogleAuth(email_in, google_id, name) ==
    LET r == google_auth(email_in, google_id, name) IN
    /\ users' = r.users
    /\ resp' = Response("google_auth", r)
    /\ UNCHANGED <<requests, children, stories, illustrations, orders, otps, now>>

(***************************************************************************)
(* routes/auth.py: one-time passwords                                      *)
(***************************************************************************)
\* timedelta(minutes=10): the lifetime of an OTP, in minutes
OtpLifetimeMinutes == 10

\* outcomes of generate_otp(): six random digits
OtpCodes == {"482915", "007731"}

\* otp_code: the outcome of generate_otp()
send_otp(email_in, otp_code) ==
    LET email == lower_strip(email_in) IN
    IF Falsy(email_in)
    THEN [code |-> 400, error |-> "Email is required", otps |-> otps]
    ELSE IF ~is_valid_email(email)
    THEN [code |-> 400, error |-> "Invalid email format", otps |-> otps]
    ELSE [code |-> 200, error |-> "",
          otps |-> Append(otps,
              [email |-> email,
               otp_code |-> otp_code,
               created_at |-> now,
               expires_at |-> now + OtpLifetimeMinutes,
               is_used |-> FALSE])]

SendOtp(email_in, otp_code) ==
    LET r == send_otp(email_in, otp_code) IN
    /\ otps' = r.otps
    /\ resp' = Response("send_otp", r)
    /\ UNCHANGED <<requests, users, children, stories, illustrations, orders, now>>

\* mutant: the query forgets is_used=False
MatchingOtps_UsedIncluded(email, otp_code) ==
    {i \in 1..Len(otps) :
        otps[i].email = email /\ otps[i].otp_code = otp_code}

\* OTP.query.filter_by(email=..., otp_code=..., is_used=False): the rows
MatchingOtps(email, otp_code) ==
    {i \in 1..Len(otps) :
        /\ otps[i].email = email
        /\ otps[i].otp_code = otp_code
        /\ ~otps[i].is_used}

\* .order_by(OTP.created_at.desc()).first(): the rows the query may return, a
\* most recent one (the database orders rows of equal created_at as it likes);
\* 0 stands for None
FirstMatchingOtp(email_in, otp_code) ==
    LET rows == MatchingOtps(lower_strip(email_in), otp_code) IN
    IF rows = {} THEN {0}
    ELSE {i \in rows : \A j \in rows : otps[j].created_at <= otps[i].created_at}

\* otp_id: the row the query returned, one of FirstMatchingOtp
verify_otp(email_in, otp_in, otp_id) ==
    LET email == lower_strip(email_in) IN
    IF Falsy(email_in) \/ Falsy(otp_in)
    THEN [code |-> 400, error |-> "Email and OTP are required",
          otps |-> otps, users |-> users]
    ELSE IF otp_id = 0
    THEN [code |-> 400, error |-> "Invalid OTP", otps |-> otps, users |-> users]
    ELSE IF is_expired(otps[otp_id])
    THEN [code |-> 400, error |-> "OTP has expired",
          otps |-> otps, users |-> users]
    ELSE [code |-> 200, error |-> "",
          otps |-> [otps EXCEPT ![otp_id].is_used = TRUE],
          users |-> IF UserByEmail(email) # 0 THEN users
                    ELSE Append(users,
                             [email |-> email, name |-> EmailPrefix(email),
                              password_hash |-> None, google_id |-> NULL])]

VerifyOtp(email_in, otp_in) ==
    \E otp_id \in FirstMatchingOtp(email_in, otp_in) :
        LET r == verify_otp(email_in, otp_in, otp_id) IN
        /\ otps' = r.otps
        /\ users' = r.users
        /\ resp' = Response("verify_otp", r)
        /\ UNCHANGED <<requests, children, stories, illustrations, orders, now>>

\* verify_otp when its db.session.commit() number failing_commit raises: the
\* first commit writes the used flag, the second the new user
verify_otp_raising(email_in, otp_in, otp_id, failing_commit) ==
    LET r == verify_otp(email_in, otp_in, otp_id) IN
    IF r.code # 200 THEN r
    ELSE IF failing_commit = 1
    THEN [code |-> 500, error |-> "commit failed",
          otps |-> otps, users |-> users]
    ELSE IF UserByEmail(lower_strip(email_in)) = 0
    THEN [code |-> 500, error |-> "commit failed",
          otps |-> r.otps, users |-> users]
    ELSE r

VerifyOtpRaising(email_in, otp_in, failing_commit) ==
    \E otp_id \in FirstMatchingOtp(email_in, otp_in) :
        LET r == verify_otp_raising(email_in, otp_in, otp_id, failing_commit) IN
        /\ otps' = r.otps
        /\ users' = r.users
        /\ resp' = Response("verify_otp", r)
        /\ UNCHANGED <<requests, children, stories, illustrations, orders, now>>

(***************************************************************************)
(* verify_otp step by step: each database round trip of a request is a     *)
(* step, and the steps of two requests interleave.                         *)
(***************************************************************************)
\* a request that has answered
Answered(request, code, error) ==
    [request EXCEPT !.pc = "done", !.code = code, !.error = error]

\* validation, the query for the record and the expiry test
BeginVerifyOtp(email_in, otp_in) ==
    /\ Len(requests) < MaxRequests
    /\ \E otp_id \in FirstMatchingOtp(email_in, otp_in) :
           LET r == verify_otp(email_in, otp_in, otp_id)
               request == [op |-> "verify_otp",
                           email |-> lower_strip(email_in),
                           otp_id |-> otp_id,
                           checked_at |-> now,
                           pc |-> "marking", code |-> 0, error |-> ""]
           IN  IF r.code # 200
               THEN /\ requests' = Append(requests,
                                       Answered(request, r.code, r.error))
                    /\ resp' = Response("verify_otp", r)
               ELSE /\ requests' = Append(requests, request)
                    /\ resp' = resp
    /\ UNCHANGED <<users, children, stories, illustrations, orders, otps, now>>

\* otp.is_used = True; db.session.commit()
MarkOtpUsed(k) ==
    /\ k \in 1..Len(requests)
    /\ requests[k].pc = "marking"
    /\ otps' = [otps EXCEPT ![requests[k].otp_id].is_used = TRUE]
    /\ requests' = [requests EXCEPT ![k].pc = "finding"]
    /\ UNCHANGED <<users, children, stories, illustrations, orders, now, resp>>

\* User.query.filter_by(email=email).first()
FindOtpUser(k) ==
    /\ k \in 1..Len(requests)
    /\ requests[k].pc = "finding"
    /\ IF UserByEmail(requests[k].email) # 0
       THEN /\ requests' = [requests EXCEPT ![k] = Answered(@, 200, "")]
            /\ resp' = [op |-> "verify_otp", code |-> 200, error |-> ""]
       ELSE /\ requests' = [requests EXCEPT ![k].pc = "creating"]
            /\ resp' = resp
    /\ UNCHANGED <<users, children, stories, illustrations, orders, otps, now>>

\* db.session.add(user); db.session.commit(): the unique index on
\* User.email refuses a second row for the address, and the except clause
\* answers 500
CreateOtpUser(k) ==
    /\ k \in 1..Len(requests)
    /\ requests[k].pc = "creating"
    /\ IF UserByEmail(requests[k].email) # 0
       THEN /\ users' = users
            /\ requests' = [requests EXCEPT ![k] =
                               Answered(@, 500, "UNIQUE constraint failed")]
            /\ resp' = [op |-> "verify_otp", code |-> 500,
                        error |-> "UNIQUE constraint failed"]
       ELSE /\ users' = Append(users,
                           [email |-> requests[k].email,
                            name |-> EmailPrefix(requests[k].email),
                            password_hash |-> None, google_id |-> NULL])
            /\ requests' = [requests EXCEPT ![k] = Answered(@, 200, "")]
            /\ resp' = [op |-> "verify_otp", code |-> 200, error |-> ""]
    /\ UNCHANGED <<children, stories, illustrations, orders, otps, now>>

\* the clock: ClockStep minutes pass between two requests
Tick ==
    /\ now + ClockStep <= MaxTime
    /\ now' = now + ClockStep
    /\ resp' = NoResponse
    /\ UNCHANGED <<requests, users, children, stories, illustrations, orders, otps>>

(***************************************************************************)
(* routes/story.py                                                         *)
(***************************************************************************)
\* Child.query.filter_by(user_id=..., name=...).first()
ChildOf(user_id, child_name) ==
    IF \E i \in 1..Len(children) :
           children[i].user_id = user_id /\ children[i].name = child_name
    THEN CHOOSE i \in 1..Len(children) :
             /\ children[i].user_id = user_id /\ children[i].name = child_name
             /\ \A j \in 1..(i - 1) :
                    ~(children[j].user_id = user_id /\ children[j].name = child_name)
    ELSE 0

create_story(user_id, child_name, story_idea) ==
    IF FalsyId(user_id)
    THEN [code |-> 400, error |-> "user_id is required",
          children |-> children, stories |-> stories]
    ELSE IF Falsy(child_name)
    THEN [code |-> 400, error |-> "child_name is required",
          children |-> children, stories |-> stories]
    ELSE IF Falsy(story_idea)
    THEN [code |-> 400, error |-> "story_idea is required",
          children |-> children, stories |-> stories]
    ELSE IF ~Exists(users, user_id)
    THEN [code |-> 404, error |-> "User not found",
          children |-> children, stories |-> stories]
    ELSE
        LET found == ChildOf(user_id, child_name)
            children1 == IF found = 0
                         THEN Append(children,
                                  [user_id |-> user_id, name |-> child_name])
                         ELSE children
            child_id == IF found = 0 THEN Len(children1) ELSE found
        IN  [code |-> 201, error |-> "",
             children |-> children1,
             stories |-> Append(stories,
                 [child_id |-> child_id,
                  original_idea |-> story_idea,
                  generated_title |-> None,
                  generated_summary |-> None,
                  pages_content |-> None,
                  status |-> "draft",
                  updated_at |-> now])]

CreateStory(user_id, child_name, story_idea) ==
    LET r == create_story(user_id, child_name, story_idea) IN
    /\ children' = r.children
    /\ stories' = r.stories
    /\ resp' = Response("create_story", r)
    /\ UNCHANGED <<requests, users, illustrations, orders, otps, now>>

\* mutant: the title of the earlier generation is kept
StoryWithContent_TitleKept(story, story_result, status) ==
    [story EXCEPT !.generated_summary = story_result.summary,
                  !.pages_content = set_pages_content(story_result.pages),
                  !.status = status,
                  !.updated_at = now]

\* the assignments of generate_story_content after the collaborator returns
StoryWithContent(story, story_result, status) ==
    [story EXCEPT !.generated_title = story_result.title,
                  !.generated_summary = story_result.summary,
                  !.pages_content = set_pages_content(story_result.pages),
                  !.status = status,
                  !.updated_at = now]

\* theme: the outcome of random.choice(story_themes) in the collaborator;
\* n_pages: the length of the page sequence it returns
generate_story_content(story_id, theme, n_pages) ==
    IF ~Exists(stories, story_id)
    THEN [code |-> 404, error |-> "Story not found", stories |-> stories]
    ELSE
        LET story == stories[story_id]
            child == children[story.child_id]
            story_result == generate_story(child.name, theme, n_pages)
        IN  [code |-> 200, error |-> "",
             stories |-> [stories EXCEPT ![story_id] =
                 StoryWithContent(story, story_result, "generated")]]

GenerateStoryContent(story_id, theme, n_pages) ==
    LET r == generate_story_content(story_id, theme, n_pages) IN
    /\ stories' = r.stories
    /\ resp' = Response("generate_story_content", r)
    /\ UNCHANGED <<requests, users, children, illustrations, orders, otps, now>>

\* mutant: the idea is overwritten by whatever the request carries
WithNewIdea_Unconditional(story, new_idea) ==
    [story EXCEPT !.original_idea = new_idea]

\* if new_idea: story.original_idea = new_idea
WithNewIdea(story, new_idea) ==
    IF ~Falsy(new_idea)
    THEN [story EXCEPT !.original_idea = new_idea]
    ELSE story

\* new_idea: the request's new_idea, "" when absent
regenerate_story(story_id, new_idea, theme, n_pages) ==
    IF ~Exists(stories, story_id)
    THEN [code |-> 404, error |-> "Story not found", stories |-> stories]
    ELSE
        LET story0 == stories[story_id]
            child == children[story0.child_id]
            story == WithNewIdea(story0, new_idea)
            story_result == generate_story(child.name, theme, n_pages)
        IN  [code |-> 200, error |-> "",
             stories |-> [stories EXCEPT ![story_id] =
                 StoryWithContent(story, story_result, "regenerated")]]

RegenerateStory(story_id, new_idea, theme, n_pages) ==
    LET r == regenerate_story(story_id, new_idea, theme, n_pages) IN
    /\ stories' = r.stories
    /\ resp' = Response("regenerate_story", r)
    /\ UNCHANGED <<requests, users, children, illustrations, orders, otps, now>>

\* regenerate_story when the collaborator or the commit raises: the
\* assignment of the new idea is rolled back with the rest
regenerate_story_raising(story_id, new_idea) ==
    IF ~Exists(stories, story_id)
    THEN [code |-> 404, error |-> "Story not found", stories |-> stories]
    ELSE [code |-> 500, error |-> "generation failed", stories |-> stories]

RegenerateStoryRaising(story_id, new_idea) ==
    LET r == regenerate_story_raising(story_id, new_idea) IN
    /\ stories' = r.stories
    /\ resp' = Response("regenerate_story", r)
    /\ UNCHANGED <<requests, users, children, illustrations, orders, otps, now>>

\* mutant: a draft story is not approved
approve_story_GeneratedOnly(story_id) ==
    IF ~Exists(stories, story_id)
    THEN [code |-> 404, error |-> "Story not found", stories |-> stories]
    ELSE IF stories[story_id].status = "draft"
    THEN [code |-> 400, error |-> "Story has no content", stories |-> stories]
    ELSE [code |-> 200, error |-> "",
          stories |-> [stories EXCEPT ![story_id] =
              [@ EXCEPT !.status = "approved", !.updated_at = now]]]

\* PUT /stories/<id>/approve
approve_story(story_id) ==
    IF ~Exists(stories, story_id)
    THEN [code |-> 404, error |-> "Story not found", stories |-> stories]
    ELSE [code |-> 200, error |-> "",
          stories |-> [stories EXCEPT ![story_id] =
              [@ EXCEPT !.status = "approved", !.updated_at = now]]]

ApproveStory(story_id) ==
    LET r == approve_story(story_id) IN
    /\ stories' = r.stories
    /\ resp' = Response("approve_story", r)
    /\ UNCHANGED <<requests, users, children, illustrations, orders, otps, now>>

(***************************************************************************)
(* Illustration generation: routes/story.py and routes/illustration.py     *)
(***************************************************************************)
\* mutant: the existence check looks at pending rows only
HasIllustration_PendingOnly(ills, story_id, page_number) ==
    \E i \in 1..Len(ills) :
        /\ ills[i].story_id = story_id /\ ills[i].page_number = page_number
        /\ ills[i].status = "pending"

\* Illustration.query.filter_by(story_id=..., page_number=...).first() finds a row
HasIllustration(ills, story_id, page_number) ==
    \E i \in 1..Len(ills) :
        ills[i].story_id = story_id /\ ills[i].page_number = page_number

\* the Illustration(...) row both endpoints build for a page
NewIllustration(story_id, page_number, leonardo_urls) ==
    [story_id |-> story_id,
     page_number |-> page_number,
     chatgpt_image_url |-> <<"chatgpt", story_id, page_number>>,
     leonardo_images |-> set_leonardo_images(leonardo_urls),
     approved_image_url |-> None,
     status |-> "pending"]

RECURSIVE ForEachPage(_, _, _, _)
\* the loop over pages_content from page k on: check, then insert (the query
\* autoflushes, so it sees the rows this request has added)
ForEachPage(ills, story_id, pages, k) ==
    IF k > Len(pages) THEN ills
    ELSE ForEachPage(
             IF HasIllustration(ills, story_id, pages[k]) THEN ills
             ELSE Append(ills, NewIllustration(story_id, pages[k],
                                   generate_illustration(story_id, pages[k]))),
             story_id, pages, k + 1)

\* POST /stories/<id>/generate-illustrations
generate_story_illustrations(story_id) ==
    IF ~Exists(stories, story_id)
    THEN [code |-> 404, error |-> "Story not found",
          illustrations |-> illustrations, generated_count |-> 0]
    ELSE
        LET pages_content == get_pages_content(stories[story_id]) IN
        IF pages_content = <<>>
        THEN [code |-> 400, error |-> "Story content not found",
              illustrations |-> illustrations, generated_count |-> 0]
        ELSE
            LET ills == ForEachPage(illustrations, story_id, pages_content, 1)
            IN  [code |-> 200, error |-> "",
                 illustrations |-> ills,
                 generated_count |-> Len(ills) - Len(illustrations)]

GenerateStoryIllustrations(story_id) ==
    LET r == generate_story_illustrations(story_id) IN
    /\ illustrations' = r.illustrations
    /\ resp' = Response("generate_story_illustrations", r)
    /\ UNCHANGED <<requests, users, children, stories, orders, otps, now>>

\* POST /illustrations/<story_id>/generate: the same loop with the URLs built
\* inline; generated_count is the number its message carries
generate_illustrations(story_id) ==
    IF ~Exists(stories, story_id)
    THEN [code |-> 404, error |-> "Story not found",
          illustrations |-> illustrations, generated_count |-> 0]
    ELSE
        LET pages_content == get_pages_content(stories[story_id]) IN
        IF pages_content = <<>>
        THEN [code |-> 400, error |-> "Story content not found",
              illustrations |-> illustrations, generated_count |-> 0]
        ELSE
            LET ills == ForEachPage(illustrations, story_id, pages_content, 1)
            IN  [code |-> 200, error |-> "",
                 illustrations |-> ills,
                 generated_count |-> Len(ills) - Len(illustrations)]

GenerateIllustrations(story_id) ==
    LET r == generate_illustrations(story_id) IN
    /\ illustrations' = r.illustrations
    /\ resp' = Response("generate_illustrations", r)
    /\ UNCHANGED <<requests, users, children, stories, orders, otps, now>>

(***************************************************************************)
(* The illustration loop step by step: one check-then-insert per step,     *)
(* the commit as a last step; the steps of two requests interleave.        *)
(***************************************************************************)
\* a store with a unique index on (story_id, page_number)
Committed_UniquePerPage(ills, added) ==
    ills \o SelectSeq(added, LAMBDA row :
                ~HasIllustration(ills, row.story_id, row.page_number))

\* db.session.commit() of the rows the session added: the Illustration table
\* has a primary key and no other index, so every row is stored
Committed(ills, added) ==
    ills \o added

\* the story and pages_content checks of either endpoint
BeginGenerateIllustrations(op, story_id) ==
    /\ Len(requests) < MaxRequests
    /\ LET r == generate_story_illustrations(story_id)
           request == [op |-> op, story_id |-> story_id,
                       pages |-> IF Exists(stories, story_id)
                                 THEN get_pages_content(stories[story_id])
                                 ELSE <<>>,
                       k |-> 1, added |-> <<>>,
                       pc |-> "looping", code |-> 0, error |-> ""]
       IN  IF r.code # 200
           THEN /\ requests' = Append(requests,
                                   [request EXCEPT !.pc = "done",
                                                   !.code = r.code,
                                                   !.error = r.error])
                /\ resp' = [op |-> op, code |-> r.code, error |-> r.error]
           ELSE /\ requests' = Append(requests, request)
                /\ resp' = resp
    /\ UNCHANGED <<users, children, stories, illustrations, orders, otps, now>>

\* one pass of the loop body: the query sees the committed rows and the
\* rows this session has added, and the new row waits for the commit
CheckThenInsert(n) ==
    /\ n \in 1..Len(requests)
    /\ requests[n].pc = "looping"
    /\ LET request == requests[n]
           page == request.pages[request.k]
           added == IF HasIllustration(illustrations \o request.added,
                                       request.story_id, page)
                    THEN request.added
                    ELSE Append(request.added,
                             NewIllustration(request.story_id, page,
                                 generate_illustration(request.story_id, page)))
       IN  requests' = [requests EXCEPT
                           ![n].added = added,
                           ![n].k = request.k + 1,
                           ![n].pc = IF request.k = Len(request.pages)
                                     THEN "committing" ELSE "looping"]
    /\ UNCHANGED <<users, children, stories, illustrations, orders, otps, now,
                   resp>>

\* db.session.commit() and the 200 answer
CommitIllustrations(n) ==
    /\ n \in 1..Len(requests)
    /\ requests[n].pc = "committing"
    /\ illustrations' = Committed(illustrations, requests[n].added)
    /\ requests' = [requests EXCEPT ![n].pc = "done", ![n].code = 200]
    /\ resp' = [op |-> requests[n].op, code |-> 200, error |-> ""]
    /\ UNCHANGED <<users, children, stories, orders, otps, now>>

\* the empty string as a URL
EmptyUrl == <<"">>

\* Python truthiness (`not x`) of a URL field: None and '' are falsy
FalsyUrl(v) == v \in {None, EmptyUrl}

\* mutant: only one of the offered candidates can be approved
approve_illustration_CandidatesOnly(illustration_id, approved_image_url) ==
    IF ~Exists(illustrations, illustration_id)
    THEN [code |-> 404, error |-> "Illustration not found",
          illustrations |-> illustrations]
    ELSE IF FalsyUrl(approved_image_url)
            \/ approved_image_url
                   \notin {illustrations[illustration_id].chatgpt_image_url,
                           illustrations[illustration_id].leonardo_images[2][1],
                           illustrations[illustration_id].leonardo_images[2][2]}
    THEN [code |-> 400, error |-> "Approved image URL is required",
          illustrations |-> illustrations]
    ELSE [code |-> 200, error |-> "",
          illustrations |-> [illustrations EXCEPT ![illustration_id] =
              [@ EXCEPT !.approved_image_url = approved_image_url,
                        !.status = "approved"]]]

\* approved_image_url: the request's URL, None when absent
approve_illustration(illustration_id, approved_image_url) ==
    IF ~Exists(illustrations, illustration_id)
    THEN [code |-> 404, error |-> "Illustration not found",
          illustrations |-> illustrations]
    ELSE IF FalsyUrl(approved_image_url)
    THEN [code |-> 400, error |-> "Approved image URL is required",
          illustrations |-> illustrations]
    ELSE [code |-> 200, error |-> "",
          illustrations |-> [illustrations EXCEPT ![illustration_id] =
              [@ EXCEPT !.approved_image_url = approved_image_url,
                        !.status = "approved"]]]

ApproveIllustration(illustration_id, approved_image_url) ==
    LET r == approve_illustration(illustration_id, approved_image_url) IN
    /\ illustrations' = r.illustrations
    /\ resp' = Response("approve_illustration", r)
    /\ UNCHANGED <<requests, users, children, stories, orders, otps, now>>

\* int(datetime.utcnow().timestamp()): constant within one clock reading
Timestamp == now

\* mutant: the approval survives the regeneration
regenerate_illustration_ApprovalKept(illustration_id) ==
    IF ~Exists(illustrations, illustration_id)
    THEN [code |-> 404, error |-> "Illustration not found",
          illustrations |-> illustrations]
    ELSE
        LET ill == illustrations[illustration_id]
            timestamp == Timestamp
        IN  [code |-> 200, error |-> "",
             illustrations |-> [illustrations EXCEPT ![illustration_id] =
                 [ill EXCEPT
                    !.chatgpt_image_url =
                        <<"chatgpt", ill.story_id, ill.page_number, timestamp>>,
                    !.leonardo_images = set_leonardo_images(
                        << <<"leonardo", ill.story_id, ill.page_number, 1, timestamp>>,
                           <<"leonardo", ill.story_id, ill.page_number, 2, timestamp>> >>)]]]

\* mutant: the regenerated row goes back to pending with its approved URL
regenerate_illustration_UrlKept(illustration_id) ==
    IF ~Exists(illustrations, illustration_id)
    THEN [code |-> 404, error |-> "Illustration not found",
          illustrations |-> illustrations]
    ELSE
        LET ill == illustrations[illustration_id]
            timestamp == Timestamp
        IN  [code |-> 200, error |-> "",
             illustrations |-> [illustrations EXCEPT ![illustration_id] =
                 [ill EXCEPT
                    !.chatgpt_image_url =
                        <<"chatgpt", ill.story_id, ill.page_number, timestamp>>,
                    !.leonardo_images = set_leonardo_images(
                        << <<"leonardo", ill.story_id, ill.page_number, 1, timestamp>>,
                           <<"leonardo", ill.story_id, ill.page_number, 2, timestamp>> >>),
                    !.status = "pending"]]]

\* mutant: an illustration of a story that has an order is not regenerated
regenerate_illustration_OrderedRefused(illustration_id) ==
    IF ~Exists(illustrations, illustration_id)
    THEN [code |-> 404, error |-> "Illustration not found",
          illustrations |-> illustrations]
    ELSE IF \E o \in 1..Len(orders) :
                orders[o].story_id = illustrations[illustration_id].story_id
    THEN [code |-> 400, error |-> "Story has an order",
          illustrations |-> illustrations]
    ELSE
        LET ill == illustrations[illustration_id]
            timestamp == Timestamp
        IN  [code |-> 200, error |-> "",
             illustrations |-> [illustrations EXCEPT ![illustration_id] =
                 [ill EXCEPT
                    !.chatgpt_image_url =
                        <<"chatgpt", ill.story_id, ill.page_number, timestamp>>,
                    !.leonardo_images = set_leonardo_images(
                        << <<"leonardo", ill.story_id, ill.page_number, 1, timestamp>>,
                           <<"leonardo", ill.story_id, ill.page_number, 2, timestamp>> >>),
                    !.status = "pending",
                    !.approved_image_url = None]]]

\* illustration.py: regenerate_illustration
regenerate_illustration(illustration_id) ==
    IF ~Exists(illustrations, illustration_id)
    THEN [code |-> 404, error |-> "Illustration not found",
          illustrations |-> illustrations]
    ELSE
        LET ill == illustrations[illustration_id]
            timestamp == Timestamp
        IN  [code |-> 200, error |-> "",
             illustrations |-> [illustrations EXCEPT ![illustration_id] =
                 [ill EXCEPT
                    !.chatgpt_image_url =
                        <<"chatgpt", ill.story_id, ill.page_number, timestamp>>,
                    !.leonardo_images = set_leonardo_images(
                        << <<"leonardo", ill.story_id, ill.page_number, 1, timestamp>>,
                           <<"leonardo", ill.story_id, ill.page_number, 2, timestamp>> >>),
                    !.status = "pending",
                    !.approved_image_url = None]]]

RegenerateIllustration(illustration_id) ==
    LET r == regenerate_illustration(illustration_id) IN
    /\ illustrations' = r.illustrations
    /\ resp' = Response("regenerate_illustration", r)
    /\ UNCHANGED <<requests, users, children, stories, orders, otps, now>>

\* Illustration.query.filter_by(story_id=..., status='approved').count()
ApprovedCount(story_id) ==
    Cardinality({i \in 1..Len(illustrations) :
        illustrations[i].story_id = story_id
        /\ illustrations[i].status = "approved"})

\* the threshold of create_payment_order and of the approved-count endpoint
MinApprovedIllustrations == 5

\* mutant: the threshold itself does not count
ReadyForPayment_Strict(approved_count) ==
    approved_count > MinApprovedIllustrations

\* 'ready_for_payment': approved_count >= 5
ReadyForPayment(approved_count) ==
    approved_count >= MinApprovedIllustrations

\* GET /illustrations/story/<id>/approved-count
get_approved_illustrations_count(story_id) ==
    IF ~Exists(stories, story_id)
    THEN [code |-> 404, error |-> "Story not found",
          approved_count |-> 0, total_count |-> 0,
          ready_for_payment |-> FALSE]
    ELSE
        LET approved_count ==
                Cardinality({i \in 1..Len(illustrations) :
                    /\ illustrations[i].story_id = story_id
                    /\ illustrations[i].status = "approved"})
            total_count ==
                Cardinality({i \in 1..Len(illustrations) :
                    illustrations[i].story_id = story_id})
        IN  [code |-> 200, error |-> "",
             approved_count |-> approved_count,
             total_count |-> total_count,
             ready_for_payment |-> ReadyForPayment(approved_count)]

GetApprovedIllustrationsCount(story_id) ==
    LET r == get_approved_illustrations_count(story_id) IN
    /\ resp' = Response("get_approved_illustrations_count", r)
    /\ UNCHANGED <<requests, users, children, stories, illustrations, orders, otps, now>>

(***************************************************************************)
(* routes/payment.py                                                       *)
(***************************************************************************)
\* mutant: the hard cover is missing from the table
BookTypes_NoHard == {"pdf", "paper"}

BookTypes == {"pdf", "paper", "hard"}

\* mutant: a mistyped table entry
PRICING_Typo(book_type) ==
    CASE book_type = "pdf" -> 497
      [] book_type = "paper" -> 1279
      [] book_type = "hard" -> 1897

\* PRICING
PRICING(book_type) ==
    CASE book_type = "pdf" -> 497
      [] book_type = "paper" -> 1297
      [] book_type = "hard" -> 1897

\* mutant: only a draft is turned away
StoryIsApproved_OnlyDraftRejected(story) == story.status # "draft"

\* mutant: a story with regenerated content counts as approved
StoryIsApproved_ContentSuffices(story) ==
    story.status \in {"approved", "regenerated"}

\* story.status != 'approved' is the rejection; this is its negation
StoryIsApproved(story) == story.status = "approved"

\* mutant: the comparison is off by one
EnoughApproved_OffByOne(approved_illustrations) ==
    approved_illustrations > MinApprovedIllustrations

\* approved_illustrations < 5 is the rejection; this is its negation
EnoughApproved(approved_illustrations) ==
    ~(approved_illustrations < MinApprovedIllustrations)

\* mutant: the order starts as if the payment were confirmed
NewOrder_Confirmed(user_id, story_id, book_type, shipping_details, razorpay_order_id) ==
    LET story == stories[story_id] IN
    [user_id |-> user_id,
     story_id |-> story_id,
     book_title |->
         IF story.generated_title # None
         THEN story.generated_title
         ELSE <<"default", children[story.child_id].name>>,
     purchase_option |-> book_type,
     price |-> PRICING(book_type),
     payment_status |-> "pending",
     order_status |-> "payment_confirmed",
     razorpay_order_id |-> razorpay_order_id,
     razorpay_payment_id |-> NULL,
     shipping_details |->
         IF book_type \in {"paper", "hard"} /\ ~Falsy(shipping_details)
         THEN set_shipping_details(shipping_details)
         ELSE None,
     pdf_file_url |-> None,
     updated_at |-> now]

\* mutant: the shipping details are stored whatever the book type
NewOrder_ShippingAlways(user_id, story_id, book_type, shipping_details, razorpay_order_id) ==
    LET story == stories[story_id] IN
    [user_id |-> user_id,
     story_id |-> story_id,
     book_title |->
         IF story.generated_title # None
         THEN story.generated_title
         ELSE <<"default", children[story.child_id].name>>,
     purchase_option |-> book_type,
     price |-> PRICING(book_type),
     payment_status |-> "pending",
     order_status |-> "new_order",
     razorpay_order_id |-> razorpay_order_id,
     razorpay_payment_id |-> NULL,
     shipping_details |->
         IF ~Falsy(shipping_details)
         THEN set_shipping_details(shipping_details)
         ELSE None,
     pdf_file_url |-> None,
     updated_at |-> now]

\* mutant: the book is always titled after the child
NewOrder_DefaultTitle(user_id, story_id, book_type, shipping_details, razorpay_order_id) ==
    LET story == stories[story_id] IN
    [user_id |-> user_id,
     story_id |-> story_id,
     book_title |-> <<"default", children[story.child_id].name>>,
     purchase_option |-> book_type,
     price |-> PRICING(book_type),
     payment_status |-> "pending",
     order_status |-> "new_order",
     razorpay_order_id |-> razorpay_order_id,
     razorpay_payment_id |-> NULL,
     shipping_details |->
         IF book_type \in {"paper", "hard"} /\ ~Falsy(shipping_details)
         THEN set_shipping_details(shipping_details)
         ELSE None,
     pdf_file_url |-> None,
     updated_at |-> now]

\* the Order(...) row create_payment_order builds, with its shipping details
NewOrder(user_id, story_id, book_type, shipping_details, razorpay_order_id) ==
    LET story == stories[story_id] IN
    [user_id |-> user_id,
     story_id |-> story_id,
     book_title |->
         IF story.generated_title # None
         THEN story.generated_title
         ELSE <<"default", children[story.child_id].name>>,
     purchase_option |-> book_type,
     price |-> PRICING(book_type),
     payment_status |-> "pending",
     order_status |-> "new_order",
     razorpay_order_id |-> razorpay_order_id,
     razorpay_payment_id |-> NULL,
     shipping_details |->
         IF book_type \in {"paper", "hard"} /\ ~Falsy(shipping_details)
         THEN set_shipping_details(shipping_details)
         ELSE None,
     pdf_file_url |-> None,
     updated_at |-> now]

\* razorpay_order_id: the outcome of generate_razorpay_order_id();
\* shipping_details: the request's object, "" when absent or empty
create_payment_order(user_id, story_id, book_type, shipping_details, razorpay_order_id) ==
    IF FalsyId(user_id)
    THEN [code |-> 400, error |-> "user_id is required", orders |-> orders]
    ELSE IF FalsyId(story_id)
    THEN [code |-> 400, error |-> "story_id is required", orders |-> orders]
    ELSE IF Falsy(book_type)
    THEN [code |-> 400, error |-> "book_type is required", orders |-> orders]
    ELSE IF book_type \notin BookTypes
    THEN [code |-> 400, error |-> "Invalid book type", orders |-> orders]
    ELSE IF ~Exists(users, user_id)
    THEN [code |-> 404, error |-> "User not found", orders |-> orders]
    ELSE IF ~Exists(stories, story_id)
    THEN [code |-> 404, error |-> "Story not found", orders |-> orders]
    ELSE IF ~StoryIsApproved(stories[story_id])
    THEN [code |-> 400, error |-> "Story must be approved before payment",
          orders |-> orders]
    ELSE IF ~EnoughApproved(ApprovedCount(story_id))
    THEN [code |-> 400,
          error |-> "At least 5 illustrations must be approved before payment",
          orders |-> orders]
    ELSE
        LET order == NewOrder(user_id, story_id, book_type, shipping_details,
                              razorpay_order_id)
        IN  [code |-> 201, error |-> "", orders |-> Append(orders, order)]

CreatePaymentOrder(user_id, story_id, book_type, shipping_details, razorpay_order_id) ==
    LET r == create_payment_order(user_id, story_id, book_type,
                                  shipping_details, razorpay_order_id) IN
    /\ orders' = r.orders
    /\ resp' = Response("create_payment_order", r)
    /\ UNCHANGED <<requests, users, children, stories, illustrations, otps, now>>

\* mutant: the lookup filters on the payment id column
OrderByGatewayId_ByPaymentId(razorpay_order_id) ==
    IF \E i \in 1..Len(orders) : orders[i].razorpay_payment_id = razorpay_order_id
    THEN CHOOSE i \in 1..Len(orders) :
             orders[i].razorpay_payment_id = razorpay_order_id
    ELSE 0

\* Order.query.filter_by(razorpay_order_id=...).first(): the row's id, 0 for None
OrderByGatewayId(razorpay_order_id) ==
    IF \E i \in 1..Len(orders) : orders[i].razorpay_order_id = razorpay_order_id
    THEN CHOOSE i \in 1..Len(orders) :
             /\ orders[i].razorpay_order_id = razorpay_order_id
             /\ \A j \in 1..(i - 1) :
                    orders[j].razorpay_order_id # razorpay_order_id
    ELSE 0

\* f"/api/generated/pdf/order_{order.id}_book.pdf"
PdfFileUrl(order_id) == <<"/api/generated/pdf/order_", order_id, "_book.pdf">>

\* verify_payment up to its first commit
PaymentConfirmed(order, razorpay_payment_id) ==
    [order EXCEPT !.razorpay_payment_id = razorpay_payment_id,
                  !.payment_status = "completed",
                  !.order_status = "payment_confirmed",
                  !.updated_at = now]

\* mutant: the URL is set but the order is not moved to completed
PdfGenerated_StatusForgotten(order, order_id) ==
    IF order.purchase_option = "pdf"
    THEN [order EXCEPT !.pdf_file_url = PdfFileUrl(order_id)]
    ELSE order

\* mutant: every paid order is delivered as a file
PdfGenerated_AnyOption(order, order_id) ==
    [order EXCEPT !.pdf_file_url = PdfFileUrl(order_id),
                  !.order_status = "completed"]

\* verify_payment from its first commit to its second
PdfGenerated(order, order_id) ==
    IF order.purchase_option = "pdf"
    THEN [order EXCEPT !.pdf_file_url = PdfFileUrl(order_id),
                       !.order_status = "completed"]
    ELSE order

verify_payment(razorpay_order_id, razorpay_payment_id, razorpay_signature) ==
    IF Falsy(razorpay_order_id)
    THEN [code |-> 400, error |-> "razorpay_order_id is required",
          orders |-> orders]
    ELSE IF Falsy(razorpay_payment_id)
    THEN [code |-> 400, error |-> "razorpay_payment_id is required",
          orders |-> orders]
    ELSE IF Falsy(razorpay_signature)
    THEN [code |-> 400, error |-> "razorpay_signature is required",
          orders |-> orders]
    ELSE
        LET order_id == OrderByGatewayId(razorpay_order_id) IN
        IF order_id = 0
        THEN [code |-> 404, error |-> "Order not found", orders |-> orders]
        ELSE [code |-> 200, error |-> "",
              orders |-> [orders EXCEPT ![order_id] =
                  PdfGenerated(PaymentConfirmed(@, razorpay_payment_id),
                               order_id)]]

VerifyPayment(razorpay_order_id, razorpay_payment_id, razorpay_signature) ==
    LET r == verify_payment(razorpay_order_id, razorpay_payment_id,
                            razorpay_signature) IN
    /\ orders' = r.orders
    /\ resp' = Response("verify_payment", r)
    /\ UNCHANGED <<requests, users, children, stories, illustrations, otps, now>>

\* mutant: the event also delivers the pdf, as verify_payment does
razorpay_webhook_PdfDelivered(event, order_id, payment_id) ==
    IF event = "payment.captured" /\ ~Falsy(order_id) /\ ~Falsy(payment_id)
       /\ OrderByGatewayId(order_id) # 0
    THEN [code |-> 200, error |-> "",
          orders |-> [orders EXCEPT ![OrderByGatewayId(order_id)] =
              PdfGenerated(PaymentConfirmed(@, payment_id),
                           OrderByGatewayId(order_id))]]
    ELSE [code |-> 200, error |-> "", orders |-> orders]

\* verify_payment when its db.session.commit() number failing_commit raises:
\* the except clause rolls the open transaction back and answers 500; what an
\* earlier commit wrote stays written
verify_payment_raising(razorpay_order_id, razorpay_payment_id, razorpay_signature, failing_commit) ==
    LET r == verify_payment(razorpay_order_id, razorpay_payment_id,
                            razorpay_signature)
        order_id == OrderByGatewayId(razorpay_order_id)
    IN  IF r.code # 200 THEN r
        ELSE IF failing_commit = 1
        THEN [code |-> 500, error |-> "commit failed", orders |-> orders]
        ELSE IF orders[order_id].purchase_option = "pdf"
        THEN [code |-> 500, error |-> "commit failed",
              orders |-> [orders EXCEPT ![order_id] =
                  PaymentConfirmed(@, razorpay_payment_id)]]
        ELSE r

VerifyPaymentRaising(razorpay_order_id, razorpay_payment_id, razorpay_signature, failing_commit) ==
    LET r == verify_payment_raising(razorpay_order_id, razorpay_payment_id,
                                    razorpay_signature, failing_commit) IN
    /\ orders' = r.orders
    /\ resp' = Response("verify_payment", r)
    /\ UNCHANGED <<requests, users, children, stories, illustrations, otps, now>>

\* mutant: the event marks the order paid without recording the payment id
razorpay_webhook_IdNotRecorded(event, order_id, payment_id) ==
    IF event = "payment.captured" /\ ~Falsy(order_id) /\ ~Falsy(payment_id)
       /\ OrderByGatewayId(order_id) # 0
    THEN [code |-> 200, error |-> "",
          orders |-> [orders EXCEPT ![OrderByGatewayId(order_id)] =
              [@ EXCEPT !.payment_status = "completed",
                        !.order_status = "payment_confirmed",
                        !.updated_at = now]]]
    ELSE [code |-> 200, error |-> "", orders |-> orders]

\* mutant: a payment.failed event is recorded on the order
razorpay_webhook_FailedRecorded(event, order_id, payment_id) ==
    IF ~Falsy(order_id) /\ ~Falsy(payment_id) /\ OrderByGatewayId(order_id) # 0
       /\ event \in {"payment.captured", "payment.failed"}
    THEN [code |-> 200, error |-> "",
          orders |-> [orders EXCEPT ![OrderByGatewayId(order_id)] =
              IF event = "payment.captured"
              THEN PaymentConfirmed(@, payment_id)
              ELSE [@ EXCEPT !.payment_status = "failed", !.updated_at = now]]]
    ELSE [code |-> 200, error |-> "", orders |-> orders]

\* order_id, payment_id: the payload's payment entity fields, NULL when absent
razorpay_webhook(event, order_id, payment_id) ==
    IF event = "payment.captured" /\ ~Falsy(order_id) /\ ~Falsy(payment_id)
       /\ OrderByGatewayId(order_id) # 0
    THEN [code |-> 200, error |-> "",
          orders |-> [orders EXCEPT ![OrderByGatewayId(order_id)] =
              PaymentConfirmed(@, payment_id)]]
    ELSE [code |-> 200, error |-> "", orders |-> orders]

RazorpayWebhook(event, order_id, payment_id) ==
    LET r == razorpay_webhook(event, order_id, payment_id) IN
    /\ orders' = r.orders
    /\ resp' = Response("razorpay_webhook", r)
    /\ UNCHANGED <<requests, users, children, stories, illustrations, otps, now>>

\* mutant: a ninth status is accepted
valid_statuses_Ninth ==
    {"new_order", "payment_confirmed", "processing_illustrations",
     "customer_approved_book", "sent_for_printing", "packed", "shipped",
     "completed", "refunded"}

valid_statuses ==
    {"new_order", "payment_confirmed", "processing_illustrations",
     "customer_approved_book", "sent_for_printing", "packed", "shipped",
     "completed"}

\* mutant: the purchase option is not looked at
WithStatus_AnyOption(order, order_id, new_status) ==
    LET o == [order EXCEPT !.order_status = new_status, !.updated_at = now] IN
    IF new_status = "completed" /\ o.pdf_file_url = None
    THEN [o EXCEPT !.pdf_file_url = PdfFileUrl(order_id)]
    ELSE o

\* mutant: the URL is synthesized for paid orders only
WithStatus_PaidOnly(order, order_id, new_status) ==
    LET o == [order EXCEPT !.order_status = new_status, !.updated_at = now] IN
    IF new_status = "completed" /\ o.purchase_option = "pdf"
       /\ o.pdf_file_url = None /\ o.payment_status = "completed"
    THEN [o EXCEPT !.pdf_file_url = PdfFileUrl(order_id)]
    ELSE o

\* the assignments of update_order_status once the status is validated
WithStatus(order, order_id, new_status) ==
    LET o == [order EXCEPT !.order_status = new_status, !.updated_at = now] IN
    IF new_status = "completed" /\ o.purchase_option = "pdf"
       /\ o.pdf_file_url = None
    THEN [o EXCEPT !.pdf_file_url = PdfFileUrl(order_id)]
    ELSE o

\* PUT /orders/<id>/update-status; new_status: the request's status, NULL when
\* absent
update_order_status(order_id, new_status) ==
    IF ~Exists(orders, order_id)
    THEN [code |-> 404, error |-> "Order not found", orders |-> orders]
    ELSE IF Falsy(new_status)
    THEN [code |-> 400, error |-> "Status is required", orders |-> orders]
    ELSE IF new_status \notin valid_statuses
    THEN [code |-> 400, error |-> "Invalid status", orders |-> orders]
    ELSE [code |-> 200, error |-> "",
          orders |-> [orders EXCEPT ![order_id] =
              WithStatus(@, order_id, new_status)]]

UpdateOrderStatus(order_id, new_status) ==
    LET r == update_order_status(order_id, new_status) IN
    /\ orders' = r.orders
    /\ resp' = Response("update_order_status", r)
    /\ UNCHANGED <<requests, users, children, stories, illustrations, otps, now>>

(***************************************************************************)
(* routes/admin.py                                                         *)
(***************************************************************************)
admin_valid_statuses ==
    {"new_order", "payment_confirmed", "processing_illustrations",
     "customer_approved_book", "sent_for_printing", "packed", "shipped",
     "completed"}

\* mutant: completing an order also marks it paid
AdminWithStatus_MarksPaid(order, order_id, new_status) ==
    LET o == [order EXCEPT !.order_status = new_status, !.updated_at = now,
                           !.payment_status =
                               IF new_status = "completed" THEN "completed"
                               ELSE @] IN
    IF new_status = "completed" /\ o.purchase_option = "pdf"
       /\ o.pdf_file_url = None
    THEN [o EXCEPT !.pdf_file_url = PdfFileUrl(order_id)]
    ELSE o

\* mutant: the admin endpoint writes the status and never a URL
AdminWithStatus_StatusOnly(order, order_id, new_status) ==
    [order EXCEPT !.order_status = new_status, !.updated_at = now]

\* the assignments of admin_update_order_status once the status is validated
AdminWithStatus(order, order_id, new_status) ==
    LET o == [order EXCEPT !.order_status = new_status, !.updated_at = now] IN
    IF new_status = "completed" /\ o.purchase_option = "pdf"
       /\ o.pdf_file_url = None
    THEN [o EXCEPT !.pdf_file_url = PdfFileUrl(order_id)]
    ELSE o

\* PUT /admin/orders/<id>/update-status
admin_update_order_status(order_id, new_status) ==
    IF ~Exists(orders, order_id)
    THEN [code |-> 404, error |-> "Order not found", orders |-> orders]
    ELSE IF Falsy(new_status)
    THEN [code |-> 400, error |-> "Status is required", orders |-> orders]
    ELSE IF new_status \notin admin_valid_statuses
    THEN [code |-> 400, error |-> "Invalid status", orders |-> orders]
    ELSE [code |-> 200, error |-> "",
          orders |-> [orders EXCEPT ![order_id] =
              AdminWithStatus(@, order_id, new_status)]]

AdminUpdateOrderStatus(order_id, new_status) ==
    LET r == admin_update_order_status(order_id, new_status) IN
    /\ orders' = r.orders
    /\ resp' = Response("admin_update_order_status", r)
    /\ UNCHANGED <<requests, users, children, stories, illustrations, otps, now>>

(***************************************************************************)
(* Order requests step by step.  A handler loads the Order row and assigns *)
(* to the loaded object; db.session.commit() then writes the row.  The     *)
(* load with its assignments and each commit are steps, and the steps of   *)
(* different requests interleave.                                          *)
(***************************************************************************)
\* mutant: the commit writes back every column of the loaded object
Flushed_WholeRow(row, loaded, assigned) ==
    assigned

\* db.session.commit() of a loaded row: the UPDATE sets the columns whose
\* assigned value differs from the loaded one; the others stay as stored
Flushed(row, loaded, assigned) ==
    [c \in DOMAIN row |->
        IF assigned[c] # loaded[c] THEN assigned[c] ELSE row[c]]

\* the position of the next commit in the order of all commits
NextCommit ==
    1 + Cardinality({k \in 1..Len(requests) : requests[k].commit > 0})
        + Cardinality({k \in 1..Len(requests) : requests[k].commits = 2})

\* a request on an order: the row it loaded, after how many commits it
\* loaded it, and the row as it assigned it
OrderRequest(op, order_id, new_status, loaded, assigned) ==
    [op |-> op, order_id |-> order_id, new_status |-> new_status,
     loaded |-> loaded, read_at |-> NextCommit - 1, assigned |-> assigned,
     pc |-> "committing", code |-> 0, error |-> "",
     commit |-> 0, commits |-> 0]

\* GET /orders/<id>: the row as the request reads it
GetOrder(order_id) ==
    /\ Len(requests) < MaxRequests
    /\ IF ~Exists(orders, order_id)
       THEN /\ requests' = Append(requests,
                   Answered(OrderRequest("get_order", 0, NULL, <<>>, <<>>),
                            404, "Order not found"))
            /\ resp' = [op |-> "get_order", code |-> 404,
                        error |-> "Order not found"]
       ELSE /\ requests' = Append(requests,
                   Answered(OrderRequest("get_order", order_id, NULL,
                                orders[order_id], orders[order_id]), 200, ""))
            /\ resp' = [op |-> "get_order", code |-> 200, error |-> ""]
    /\ UNCHANGED <<users, children, stories, illustrations, orders, otps, now>>

\* either update-status endpoint up to its commit
BeginUpdateOrderStatus(op, order_id, new_status) ==
    /\ Len(requests) < MaxRequests
    /\ LET r == IF op = "update_order_status"
                THEN update_order_status(order_id, new_status)
                ELSE admin_update_order_status(order_id, new_status)
           loaded == IF Exists(orders, order_id) THEN orders[order_id]
                     ELSE <<>>
       IN  IF r.code # 200
           THEN /\ requests' = Append(requests,
                       Answered(OrderRequest(op,
                                    IF loaded = <<>> THEN 0 ELSE order_id,
                                    new_status, loaded, loaded),
                                r.code, r.error))
                /\ resp' = Response(op, r)
           ELSE /\ requests' = Append(requests,
                       OrderRequest(op, order_id, new_status, loaded,
                                    r.orders[order_id]))
                /\ resp' = resp
    /\ UNCHANGED <<users, children, stories, illustrations, orders, otps, now>>

\* verify_payment up to its first commit
BeginVerifyPayment(razorpay_order_id, razorpay_payment_id, razorpay_signature) ==
    /\ Len(requests) < MaxRequests
    /\ LET r == verify_payment(razorpay_order_id, razorpay_payment_id,
                               razorpay_signature)
           order_id == OrderByGatewayId(razorpay_order_id)
       IN  IF r.code # 200
           THEN /\ requests' = Append(requests,
                       Answered(OrderRequest("verify_payment", 0, NULL,
                                             <<>>, <<>>),
                                r.code, r.error))
                /\ resp' = Response("verify_payment", r)
           ELSE /\ requests' = Append(requests,
                       OrderRequest("verify_payment", order_id, NULL,
                           orders[order_id],
                           PaymentConfirmed(orders[order_id],
                                            razorpay_payment_id)))
                /\ resp' = resp
    /\ UNCHANGED <<users, children, stories, illustrations, orders, otps, now>>

\* razorpay_webhook up to its commit; an event it ignores is answered at once
BeginRazorpayWebhook(event, order_id, payment_id) ==
    /\ Len(requests) < MaxRequests
    /\ LET r == razorpay_webhook(event, order_id, payment_id)
           id == OrderByGatewayId(order_id)
       IN  IF event = "payment.captured" /\ ~Falsy(order_id)
              /\ ~Falsy(payment_id) /\ id # 0
           THEN /\ requests' = Append(requests,
                       OrderRequest("razorpay_webhook", id, NULL,
                                    orders[id], r.orders[id]))
                /\ resp' = resp
           ELSE /\ requests' = Append(requests,
                       Answered(OrderRequest("razorpay_webhook", 0, NULL,
                                             <<>>, <<>>), 200, ""))
                /\ resp' = Response("razorpay_webhook", r)
    /\ UNCHANGED <<users, children, stories, illustrations, orders, otps, now>>

\* the first db.session.commit() of a request; verify_payment goes on to its
\* pdf branch, the other handlers answer
CommitOrder(k) ==
    /\ k \in 1..Len(requests)
    /\ requests[k].pc = "committing"
    /\ LET request == requests[k] IN
       /\ orders' = [orders EXCEPT ![request.order_id] =
                        Flushed(@, request.loaded, request.assigned)]
       /\ IF request.op = "verify_payment"
          THEN /\ requests' = [requests EXCEPT ![k].pc = "reloading",
                                               ![k].commit = NextCommit,
                                               ![k].commits = 1]
               /\ resp' = resp
          ELSE /\ requests' = [requests EXCEPT
                                  ![k] = [Answered(@, 200, "") EXCEPT
                                             !.commit = NextCommit,
                                             !.commits = 1]]
               /\ resp' = [op |-> request.op, code |-> 200, error |-> ""]
    /\ UNCHANGED <<users, children, stories, illustrations, otps, now>>

\* verify_payment after its first commit: order.purchase_option loads the
\* row again (the commit expired the object), and a pdf order gets its
\* assignments
GeneratePdf(k) ==
    /\ k \in 1..Len(requests)
    /\ requests[k].pc = "reloading"
    /\ LET order == orders[requests[k].order_id] IN
       IF order.purchase_option = "pdf"
       THEN /\ requests' = [requests EXCEPT
                               ![k].loaded = order,
                               ![k].read_at = NextCommit - 1,
                               ![k].assigned =
                                   PdfGenerated(order, requests[k].order_id),
                               ![k].pc = "committing_pdf"]
            /\ resp' = resp
       ELSE /\ requests' = [requests EXCEPT
                               ![k] = [Answered(@, 200, "") EXCEPT
                                          !.loaded = order,
                                          !.read_at = NextCommit - 1,
                                          !.assigned = order]]
            /\ resp' = [op |-> "verify_payment", code |-> 200, error |-> ""]
    /\ UNCHANGED <<users, children, stories, illustrations, orders, otps, now>>

\* the second db.session.commit() of verify_payment and its answer
CommitPdf(k) ==
    /\ k \in 1..Len(requests)
    /\ requests[k].pc = "committing_pdf"
    /\ orders' = [orders EXCEPT ![requests[k].order_id] =
                     Flushed(@, requests[k].loaded, requests[k].assigned)]
    /\ requests' = [requests EXCEPT
                       ![k] = [Answered(@, 200, "") EXCEPT
                                  !.commit = NextCommit, !.commits = 2]]
    /\ resp' = [op |-> "verify_payment", code |-> 200, error |-> ""]
    /\ UNCHANGED <<users, children, stories, illustrations, otps, now>>

(***************************************************************************)
(* Request inputs.                                                         *)
(***************************************************************************)
\* user and story ids of requests: 0 (missing), existing ones, a missing row
UserIdInputs == 0..2
StoryIdInputs == 0..2
\* the stories create_story is asked for in the single-story specifications
StoryIds == {1}
ChildNames == {"Asha"}
StoryIdeaInputs == {"", "a dragon picnic"}
NewIdeaInputs == {"", "a trip to the moon"}
\* approved_image_url of approve requests: absent, or some URL
ApprovedUrlInputs == {None, EmptyUrl, <<"https://cdn.example/pick.jpg">>}
BookTypeInputs == BookTypes \cup {"", "epub"}
ShippingInputs == {"", "12 MG Road, Pune"}
\* outcomes of generate_razorpay_order_id(); the specifications draw one that
\* no order has yet (a collision of two random 14-character ids is not modelled)
GatewayOrderIds == {"order_a1", "order_b2"}
GatewayOrderIdInputs == GatewayOrderIds \cup {"", "order_zz"}
PaymentIdInputs == {"", "pay_k9"}
SignatureInputs == {"", "sig"}
StatusInputs == valid_statuses \cup {NULL, "", "refunded"}

\* create-order requests <<user_id, story_id, book_type>>: the well-formed
\* ones, and those with one field missing, unknown or invalid
OrderRequests ==
    {<<1, 1, b>> : b \in BookTypeInputs}
        \cup {<<u, 1, "pdf">> : u \in UserIdInputs}
        \cup {<<1, s, "pdf">> : s \in StoryIdInputs}
        \cup {<<2, 1, "epub">>}

\* verify requests <<order id, payment id, signature>>
VerifyRequests ==
    {<<g, "pay_k9", "sig">> : g \in GatewayOrderIdInputs}
        \cup {<<"order_a1", p, sig>> : p \in PaymentIdInputs, sig \in SignatureInputs}

\* webhook deliveries <<event, order id, payment id>>
WebhookRequests ==
    {<<"payment.captured", g, "pay_k9">> : g \in GatewayOrderIdInputs}
        \cup {<<"payment.failed", "order_a1", "pay_k9">>,
              <<"payment.captured", "order_a1", "">>}

\* update-status requests <<order id, status>>
StatusRequests ==
    {<<o, st>> : o \in 1..MaxOrders, st \in valid_statuses}
        \cup {<<1, st>> : st \in StatusInputs}
        \cup {<<MaxOrders + 1, "packed">>}

(***************************************************************************)
(* Spec: the content workflow up to order creation, one story.             *)
(***************************************************************************)
Init ==
    /\ users = <<>>
    /\ children = <<>>
    /\ stories = <<>>
    /\ illustrations = <<>>
    /\ orders = <<>>
    /\ otps = <<>>
    /\ now = 0
    /\ resp = NoResponse
    /\ requests = <<>>

Next ==
    \/ \E e \in EmailInputs : Register(e, "Meera", "")
    \/ \E u \in UserIdInputs, c \in ChildNames, idea \in StoryIdeaInputs :
           /\ Len(stories) + 1 \in StoryIds
           /\ CreateStory(u, c, idea)
    \/ \E s \in StoryIdInputs : GenerateStoryContent(s, story_themes[1], NumPages)
    \/ \E s \in StoryIdInputs, idea \in NewIdeaInputs :
           RegenerateStory(s, idea, story_themes[1], NumPages)
    \/ \E s \in StoryIdInputs : ApproveStory(s)
    \/ \E s \in StoryIdInputs : GenerateStoryIllustrations(s)
    \/ \E s \in StoryIdInputs : GenerateIllustrations(s)
    \/ \E i \in 1..(NumPages + 1), url \in ApprovedUrlInputs :
           ApproveIllustration(i, url)
    \/ \E q \in OrderRequests :
           /\ Len(orders) < MaxOrders
           /\ CreatePaymentOrder(q[1], q[2], q[3], "", "order_a1")
    \/ \E s \in StoryIdInputs : GetApprovedIllustrationsCount(s)

Spec == Init /\ [][Next]_vars

(***************************************************************************)
(* SpecOrder: the order and payment operations on a story that is ready    *)
(* for payment (approved, MinApprovedIllustrations illustrations approved),*)
(* the state Spec reaches before its first order.                          *)
(***************************************************************************)
InitOrder ==
    /\ now = 0
    /\ users = <<[email |-> "asha@zingy.in", name |-> "Meera",
                  password_hash |-> None, google_id |-> NULL]>>
    /\ children = <<[user_id |-> 1, name |-> "Asha"]>>
    /\ stories = <<StoryWithContent(
                       [child_id |-> 1, original_idea |-> "a dragon picnic",
                        generated_title |-> None, generated_summary |-> None,
                        pages_content |-> None, status |-> "draft",
                        updated_at |-> 0],
                       generate_story("Asha", story_themes[1], NumPages),
                       "approved")>>
    /\ illustrations =
           [i \in 1..NumPages |->
               LET ill == NewIllustration(1, TemplatePageNumbers[i],
                              generate_illustration(1, TemplatePageNumbers[i]))
               IN  IF i <= MinApprovedIllustrations
                   THEN [ill EXCEPT !.approved_image_url =
                                        <<"https://cdn.example/pick.jpg">>,
                                    !.status = "approved"]
                   ELSE ill]
    /\ orders = <<>>
    /\ otps = <<>>
    /\ resp = NoResponse
    /\ requests = <<>>

NextOrder ==
    \/ \E q \in OrderRequests, g \in GatewayOrderIds :
           /\ Len(orders) < MaxOrders
           /\ OrderByGatewayId(g) = 0
           /\ CreatePaymentOrder(q[1], q[2], q[3], "12 MG Road, Pune", g)
    \/ \E q \in VerifyRequests : VerifyPayment(q[1], q[2], q[3])
    \/ \E q \in WebhookRequests : RazorpayWebhook(q[1], q[2], q[3])
    \/ \E q \in StatusRequests : UpdateOrderStatus(q[1], q[2])
    \/ \E q \in StatusRequests : AdminUpdateOrderStatus(q[1], q[2])

SpecOrder == InitOrder /\ [][NextOrder]_vars

(***************************************************************************)
(* SpecOtp: send-otp and verify-otp requests as the clock advances.        *)
(***************************************************************************)
\* send-otp requests <<email, generated code>>
SendOtpRequests ==
    {<<e, c>> : e \in {"asha@zingy.in", "ravi@zingy.in"}, c \in OtpCodes}
        \cup {<<" Asha@Zingy.IN ", "482915">>, <<"", "482915">>,
              <<"asha-at-zingy", "482915">>}

\* verify-otp requests <<email, otp>>
VerifyOtpRequests ==
    {<<e, c>> : e \in {"asha@zingy.in", "ravi@zingy.in"}, c \in OtpCodes}
        \cup {<<" Asha@Zingy.IN ", "482915">>, <<"", "482915">>,
              <<"asha@zingy.in", "">>, <<"asha@zingy.in", "000000">>}

NextOtp ==
    \/ \E q \in SendOtpRequests :
           /\ Len(otps) < MaxOtps
           /\ SendOtp(q[1], q[2])
    \/ \E q \in VerifyOtpRequests : VerifyOtp(q[1], q[2])
    \/ Tick

SpecOtp == Init /\ [][NextOtp]_vars

(***************************************************************************)
(* SpecScenario: one client walking through the content workflow to a paid *)
(* pdf order: register, create story, generate, generate-illustrations,    *)
(* approve MinApprovedIllustrations illustrations, create order, verify    *)
(* payment.  The story is approved at some point after its content exists, *)
(* or not at all.                                                          *)
(***************************************************************************)
\* the client has asked for the order
OrderRequested == resp.op \in {"create_payment_order", "verify_payment"}

NextScenario ==
    \/ /\ Len(users) = 0
       /\ Register("asha@zingy.in", "Meera", "")
    \/ /\ Len(users) = 1 /\ Len(stories) = 0
       /\ CreateStory(1, "Asha", "a dragon picnic")
    \/ /\ Len(stories) = 1 /\ stories[1].status = "draft"
       /\ \E theme \in Themes : GenerateStoryContent(1, theme, NumPages)
    \/ /\ Len(stories) = 1 /\ stories[1].status = "generated"
       /\ ~OrderRequested
       /\ ApproveStory(1)
    \/ /\ Len(stories) = 1 /\ stories[1].status # "draft"
       /\ Len(illustrations) = 0
       /\ GenerateStoryIllustrations(1)
    \/ /\ ApprovedCount(1) < MinApprovedIllustrations
       /\ \E i \in 1..Len(illustrations) :
              /\ illustrations[i].status = "pending"
              /\ \E url \in {illustrations[i].chatgpt_image_url,
                             <<"https://cdn.example/pick.jpg">>} :
                     ApproveIllustration(i, url)
    \/ /\ ApprovedCount(1) = MinApprovedIllustrations
       /\ ~OrderRequested
       /\ \E g \in GatewayOrderIds : CreatePaymentOrder(1, 1, "pdf", "", g)
    \/ /\ resp.op = "create_payment_order"
       /\ \E g \in GatewayOrderIds :
              /\ Len(orders) > 0 => g = orders[1].razorpay_order_id
              /\ VerifyPayment(g, "pay_k9", "sig")

SpecScenario == Init /\ [][NextScenario]_vars

(***************************************************************************)
(* SpecIllus: content and illustration requests on the two stories of one  *)
(* child, the collaborator returning 1..ShortStoryPages pages.  The second *)
(* story has its one page and its illustration from the start; the first   *)
(* is a draft.                                                             *)
(***************************************************************************)
InitIllus ==
    /\ now = 0
    /\ users = <<[email |-> "asha@zingy.in", name |-> "Meera",
                  password_hash |-> None, google_id |-> NULL]>>
    /\ children = <<[user_id |-> 1, name |-> "Asha"]>>
    /\ stories =
           LET draft == [child_id |-> 1,
                         original_idea |-> "a dragon picnic",
                         generated_title |-> None, generated_summary |-> None,
                         pages_content |-> None, status |-> "draft",
                         updated_at |-> 0]
           IN  <<draft,
                 StoryWithContent(draft,
                     generate_story("Asha", story_themes[1], 1),
                     "generated")>>
    /\ illustrations =
           <<NewIllustration(2, TemplatePageNumbers[1],
                 generate_illustration(2, TemplatePageNumbers[1]))>>
    /\ orders = <<>>
    /\ otps = <<>>
    /\ resp = NoResponse
    /\ requests = <<>>

NextIllus ==
    \/ \E s \in {1, 3}, n \in 1..ShortStoryPages :
           GenerateStoryContent(s, story_themes[1], n)
    \/ \E s \in {1, 3}, n \in 1..ShortStoryPages :
           RegenerateStory(s, "", story_themes[1], n)
    \/ \E s \in 1..3 : GenerateStoryIllustrations(s)
    \/ \E s \in 1..3 : GenerateIllustrations(s)
    \/ \E i \in 1..(Len(illustrations) + 1), url \in ApprovedUrlInputs :
           ApproveIllustration(i, url)
    \/ \E i \in 1..(Len(illustrations) + 1) : RegenerateIllustration(i)

SpecIllus == InitIllus /\ [][NextIllus]_vars

(***************************************************************************)
(* SpecAfterOrder: the story, illustration and order requests a client and *)
(* the gateway send once a story is ready for payment, before and after    *)
(* its orders exist.                                                       *)
(***************************************************************************)
NextAfterOrder ==
    \/ \E g \in GatewayOrderIds :
           /\ Len(orders) < MaxOrders
           /\ OrderByGatewayId(g) = 0
           /\ CreatePaymentOrder(1, 1, "pdf", "", g)
    \/ \E g \in GatewayOrderIds : VerifyPayment(g, "pay_k9", "sig")
    \/ \E g \in GatewayOrderIds : RazorpayWebhook("payment.captured", g, "pay_k9")
    \/ \E o \in 1..MaxOrders : UpdateOrderStatus(o, "completed")
    \/ \E o \in 1..MaxOrders : AdminUpdateOrderStatus(o, "refunded")
    \/ \E theme \in Themes : GenerateStoryContent(1, theme, NumPages)
    \/ \E idea \in NewIdeaInputs, theme \in Themes :
           RegenerateStory(1, idea, theme, NumPages)
    \/ ApproveStory(1)
    \/ GenerateStoryIllustrations(1)
    \/ GenerateIllustrations(1)
    \/ \E url \in ApprovedUrlInputs : ApproveIllustration(1, url)
    \/ RegenerateIllustration(1)

SpecAfterOrder == InitOrder /\ [][NextAfterOrder]_vars

(***************************************************************************)
(* SpecFault: requests on a story that is ready for payment, with the      *)
(* store or the collaborator failing inside a request.                     *)
(***************************************************************************)
NextFault ==
    \/ \E b \in BookTypes, g \in GatewayOrderIds :
           /\ Len(orders) < MaxOrders
           /\ OrderByGatewayId(g) = 0
           /\ CreatePaymentOrder(1, 1, b, "12 MG Road, Pune", g)
    \/ \E q \in VerifyRequests : VerifyPayment(q[1], q[2], q[3])
    \/ \E g \in GatewayOrderIds, failing_commit \in 1..2 :
           VerifyPaymentRaising(g, "pay_k9", "sig", failing_commit)
    \/ \E o \in 1..MaxOrders, st \in {"packed", "refunded"} :
           UpdateOrderStatus(o, st)
    \/ \E idea \in NewIdeaInputs : RegenerateStoryRaising(1, idea)
    \/ \E c \in OtpCodes :
           /\ Len(otps) < MaxOtps
           /\ SendOtp("ravi@zingy.in", c)
    \/ \E c \in OtpCodes \cup {"000000"} : VerifyOtp("ravi@zingy.in", c)
    \/ \E c \in OtpCodes, failing_commit \in 1..2 :
           VerifyOtpRaising("ravi@zingy.in", c, failing_commit)

SpecFault == InitOrder /\ [][NextFault]_vars

(***************************************************************************)
(* SpecIllusRace: illustration requests served at the same time, for a     *)
(* generated story without illustrations (story 1), a draft (story 2) and  *)
(* an unknown story (3).                                                   *)
(***************************************************************************)
InitIllusRace ==
    /\ now = 0
    /\ users = <<[email |-> "asha@zingy.in", name |-> "Meera",
                  password_hash |-> None, google_id |-> NULL]>>
    /\ children = <<[user_id |-> 1, name |-> "Asha"]>>
    /\ stories =
           LET draft == [child_id |-> 1,
                         original_idea |-> "a dragon picnic",
                         generated_title |-> None, generated_summary |-> None,
                         pages_content |-> None, status |-> "draft",
                         updated_at |-> 0]
           IN  <<StoryWithContent(draft,
                     generate_story("Asha", story_themes[1], ShortStoryPages),
                     "generated"),
                 draft>>
    /\ illustrations = <<>>
    /\ orders = <<>>
    /\ otps = <<>>
    /\ resp = NoResponse
    /\ requests = <<>>

NextIllusRace ==
    \/ \E op \in {"generate_story_illustrations", "generate_illustrations"},
          s \in 1..3 :
           BeginGenerateIllustrations(op, s)
    \/ \E n \in 1..MaxRequests : CheckThenInsert(n)
    \/ \E n \in 1..MaxRequests : CommitIllustrations(n)

SpecIllusRace == InitIllusRace /\ [][NextIllusRace]_vars

(***************************************************************************)
(* SpecOtpRace: verify-otp requests served at the same time.               *)
(***************************************************************************)
NextOtpRace ==
    \/ \E c \in OtpCodes :
           /\ Len(otps) < MaxOtps
           /\ SendOtp("asha@zingy.in", c)
    \/ \E e \in {"asha@zingy.in", " Asha@Zingy.IN "}, c \in OtpCodes :
           BeginVerifyOtp(e, c)
    \/ \E k \in 1..MaxRequests : MarkOtpUsed(k)
    \/ \E k \in 1..MaxRequests : FindOtpUser(k)
    \/ \E k \in 1..MaxRequests : CreateOtpUser(k)
    \/ Tick

SpecOtpRace == Init /\ [][NextOtpRace]_vars

(***************************************************************************)
(* SpecOrderRace: requests on one order (pdf or paper, created and not yet *)
(* paid) served at the same time.                                          *)
(***************************************************************************)
InitOrderRace ==
    /\ now = 0
    /\ users = <<[email |-> "asha@zingy.in", name |-> "Meera",
                  password_hash |-> None, google_id |-> NULL]>>
    /\ children = <<[user_id |-> 1, name |-> "Asha"]>>
    /\ stories = <<StoryWithContent(
                       [child_id |-> 1, original_idea |-> "a dragon picnic",
                        generated_title |-> None, generated_summary |-> None,
                        pages_content |-> None, status |-> "draft",
                        updated_at |-> 0],
                       generate_story("Asha", story_themes[1], NumPages),
                       "approved")>>
    /\ illustrations = <<>>
    /\ otps = <<>>
    /\ resp = NoResponse
    /\ requests = <<>>
    /\ \E b \in {"pdf", "paper"} :
           orders = <<NewOrder(1, 1, b, "12 MG Road, Pune", "order_a1")>>

NextOrderRace ==
    \/ \E o \in 1..2 : GetOrder(o)
    \/ \E op \in {"update_order_status", "admin_update_order_status"},
          st \in {"new_order", "packed", "completed", "refunded"} :
           BeginUpdateOrderStatus(op, 1, st)
    \/ BeginUpdateOrderStatus("update_order_status", 2, "packed")
    \/ \E g \in {"order_a1", "order_zz"} :
           BeginVerifyPayment(g, "pay_k9", "sig")
    \/ \E event \in {"payment.captured", "payment.failed"} :
           BeginRazorpayWebhook(event, "order_a1", "pay_k9")
    \/ \E k \in 1..MaxRequests : CommitOrder(k)
    \/ \E k \in 1..MaxRequests : GeneratePdf(k)
    \/ \E k \in 1..MaxRequests : CommitPdf(k)

SpecOrderRace == InitOrderRace /\ [][NextOrderRace]_vars

(***************************************************************************)
(* SpecRegen: the illustrations of one generated story are created,        *)
(* approved and regenerated as the clock advances.                         *)
(***************************************************************************)
NextRegen ==
    \/ \E s \in 1..3 : GenerateStoryIllustrations(s)
    \/ \E i \in 1..(Len(illustrations) + 1) :
           ApproveIllustration(i, <<"https://cdn.example/pick.jpg">>)
    \/ \E i \in 1..(Len(illustrations) + 1) : RegenerateIllustration(i)
    \/ Tick

SpecRegen == InitIllusRace /\ [][NextRegen]_vars

(***************************************************************************)
(* SpecAuth: the three requests that create users: register, external-     *)
(* identity login and verify-otp (with the send-otp it needs).             *)
(***************************************************************************)
\* the e-mail strings of SpecAuth's requests
AuthEmails == EmailInputs \cup {"ravi@zingy.in"}
\* the external identity ids of its login requests
GoogleIds == {"", "g-1", "g-2"}

NextAuth ==
    \/ \E e \in EmailInputs, password \in {"", "s3cret"} :
           Register(e, "Meera", password)
    \/ \E e \in {"asha@zingy.in", " Asha@Zingy.IN ", "ravi@zingy.in"},
          g \in GoogleIds :
           GoogleAuth(e, g, NULL)
    \/ /\ Len(otps) < MaxOtps
       /\ SendOtp("ravi@zingy.in", "482915")
    \/ \E c \in {"482915", "000000"} : VerifyOtp("ravi@zingy.in", c)

SpecAuth == Init /\ [][NextAuth]_vars

(***************************************************************************)
(* SpecOrderedIllus: approve and regenerate requests on the illustrations  *)
(* of a story that is ready for payment, before and after its orders.      *)
(***************************************************************************)
\* the illustration ids of its requests: two approved rows, a pending row
\* and an id past the table
OrderedIllusInputs ==
    {1, MinApprovedIllustrations, MinApprovedIllustrations + 1, NumPages + 1}

NextOrderedIllus ==
    \/ \E g \in GatewayOrderIds :
           /\ Len(orders) < MaxOrders
           /\ OrderByGatewayId(g) = 0
           /\ CreatePaymentOrder(1, 1, "pdf", "", g)
    \/ \E g \in GatewayOrderIds : VerifyPayment(g, "pay_k9", "sig")
    \/ \E i \in OrderedIllusInputs, url \in ApprovedUrlInputs :
           ApproveIllustration(i, url)
    \/ \E i \in OrderedIllusInputs : RegenerateIllustration(i)

SpecOrderedIllus == InitOrder /\ [][NextOrderedIllus]_vars

(***************************************************************************)
(* Order creation gate (Spec).                                             *)
(***************************************************************************)
\* approved illustrations of a story, counted from the table
ApprovedOf(s) ==
    Cardinality({i \in 1..Len(illustrations) :
        illustrations[i].story_id = s /\ illustrations[i].status = "approved"})

\* C1: createOrder for an existing user, an existing story and a valid
\* bookType fails with a validation error and creates no Order whenever the
\* story's status is not approved, whatever the number of approved
\* illustrations.
C1_UnapprovedStoryRejected ==
    \A u \in 1..Len(users), s \in 1..Len(stories), b \in BookTypes,
       d \in ShippingInputs, g \in GatewayOrderIds :
        stories[s].status \in {"draft", "generated", "regenerated"} =>
            LET r == create_payment_order(u, s, b, d, g) IN
            /\ r.code = 400
            /\ r.error = "Story must be approved before payment"
            /\ r.orders = orders

\* C1 witness: a create-order request was turned away for a regenerated story
\* with 5 approved illustrations
C1_Witness ==
    /\ resp.op = "create_payment_order"
    /\ resp.error = "Story must be approved before payment"
    /\ Len(users) = 1 /\ Len(stories) = 1
    /\ stories[1].status = "regenerated"
    /\ ApprovedOf(1) >= 5
    /\ orders = <<>>

\* C2: createOrder for an existing user, an approved story and a valid
\* bookType fails and creates no Order when fewer than 5 illustrations of the
\* story are approved, and creates the order when 5 or more are, whatever the
\* total number of pages and illustrations.
C2_FiveApprovedGate ==
    \A u \in 1..Len(users), s \in 1..Len(stories), b \in BookTypes,
       d \in ShippingInputs, g \in GatewayOrderIds :
        stories[s].status = "approved" =>
            LET r == create_payment_order(u, s, b, d, g) IN
            IF ApprovedOf(s) < 5
            THEN /\ r.code = 400
                 /\ r.error =
                        "At least 5 illustrations must be approved before payment"
                 /\ r.orders = orders
            ELSE /\ r.code = 201
                 /\ Len(r.orders) = Len(orders) + 1
                 /\ SubSeq(r.orders, 1, Len(orders)) = orders
                 /\ r.orders[Len(r.orders)].story_id = s
                 /\ r.orders[Len(r.orders)].user_id = u
                 /\ r.orders[Len(r.orders)].purchase_option = b

\* C2 witness: an order was created with exactly 5 of the story's
\* illustrations approved and one still pending
C2_Witness ==
    /\ resp.op = "create_payment_order" /\ resp.code = 201
    /\ Len(orders) = 1
    /\ stories[orders[1].story_id].status = "approved"
    /\ ApprovedOf(orders[1].story_id) = 5
    /\ Len(illustrations) > 5

(***************************************************************************)
(* Orders and payments (SpecOrder).                                        *)
(***************************************************************************)
\* C3: verifyPayment on an existing order sets payment_status=completed from
\* every prior order_status; a pdf order ends completed with a deliverable
\* URL, a paper or hard order ends payment_confirmed with a null URL.
C3_VerifyPaymentOutcome ==
    \A g \in GatewayOrderIds :
        \A o \in 1..Len(orders) :
            (orders[o].razorpay_order_id = g
             /\ \A j \in 1..(o - 1) : orders[j].razorpay_order_id # g) =>
                LET r == verify_payment(g, "pay_k9", "sig")
                    after == r.orders[o]
                IN  /\ r.code = 200
                    /\ after.payment_status = "completed"
                    /\ IF orders[o].purchase_option = "pdf"
                       THEN /\ after.order_status = "completed"
                            /\ after.pdf_file_url # None
                       ELSE /\ orders[o].purchase_option \in {"paper", "hard"}
                            /\ after.order_status = "payment_confirmed"
                            /\ after.pdf_file_url = None

\* C3 witness: a pdf order has been verified
C3_Witness ==
    /\ resp.op = "verify_payment" /\ resp.code = 200
    /\ \E o \in 1..Len(orders) :
           /\ orders[o].purchase_option = "pdf"
           /\ orders[o].payment_status = "completed"
           /\ orders[o].order_status = "completed"
           /\ orders[o].pdf_file_url # None

\* C5: every Order has purchase_option in {pdf, paper, hard} and the table's
\* price for it (497, 1297, 1897), and no step changes the price or the
\* purchase option of an order.
C5_PriceFromTable ==
    /\ [](\A o \in 1..Len(orders) :
            \/ orders[o].purchase_option = "pdf" /\ orders[o].price = 497
            \/ orders[o].purchase_option = "paper" /\ orders[o].price = 1297
            \/ orders[o].purchase_option = "hard" /\ orders[o].price = 1897)
    /\ [][\A o \in 1..Len(orders) :
            /\ o <= Len(orders')
            /\ orders'[o].price = orders[o].price
            /\ orders'[o].purchase_option = orders[o].purchase_option]_vars

\* C5 witness: a paper order that later operations have paid and shipped
C5_Witness ==
    \E o \in 1..Len(orders) :
        /\ orders[o].purchase_option = "paper"
        /\ orders[o].price = 1297
        /\ orders[o].payment_status = "completed"
        /\ orders[o].order_status = "shipped"

\* the status strings setOrderStatus must reject
RejectedStatusStrings == {"", "refunded"}

\* C9 as claimed: both setOrderStatus endpoints answer 'Invalid status' to
\* every status string outside the eight values and leave the order unchanged.
C9_AlwaysInvalidStatus ==
    \A o \in 1..Len(orders), st \in RejectedStatusStrings :
        /\ update_order_status(o, st).code = 400
        /\ update_order_status(o, st).error = "Invalid status"
        /\ update_order_status(o, st).orders = orders
        /\ admin_update_order_status(o, st).code = 400
        /\ admin_update_order_status(o, st).error = "Invalid status"
        /\ admin_update_order_status(o, st).orders = orders

\* C9 amended: both setOrderStatus endpoints reject every status string
\* outside the eight values with a validation error, 'Status is required'
\* for the empty string and 'Invalid status' for any other, and leave every
\* field of the order unchanged.
C9_InvalidStatusRejected ==
    \A o \in 1..Len(orders), st \in RejectedStatusStrings :
        LET expected == IF st = "" THEN "Status is required"
                        ELSE "Invalid status"
        IN  /\ update_order_status(o, st).code = 400
            /\ update_order_status(o, st).error = expected
            /\ update_order_status(o, st).orders = orders
            /\ admin_update_order_status(o, st).code = 400
            /\ admin_update_order_status(o, st).error = expected
            /\ admin_update_order_status(o, st).orders = orders

\* C9 witness: an update-status request on an existing order was answered
\* 'Invalid status'
C9_Witness ==
    /\ resp.op = "update_order_status"
    /\ resp.code = 400 /\ resp.error = "Invalid status"
    /\ Len(orders) >= 1
    /\ orders[1].order_status = "packed"

\* C10: setOrderStatus(completed) on a pdf order with a null deliverable URL
\* sets the URL derived from the order id alone, the one verifyPayment sets;
\* in every other case (URL already set, paper or hard order, another
\* status) setOrderStatus leaves pdf_file_url as it was.
C10_UrlSynthesis ==
    \A o \in 1..Len(orders), st \in valid_statuses :
        LET old == orders[o]
            new == update_order_status(o, st).orders[o]
            adm == admin_update_order_status(o, st).orders[o]
            paid == PdfGenerated(PaymentConfirmed(old, "pay_k9"), o)
        IN  IF st = "completed" /\ old.purchase_option = "pdf"
               /\ old.pdf_file_url = None
            THEN /\ new.pdf_file_url =
                        <<"/api/generated/pdf/order_", o, "_book.pdf">>
                 /\ adm.pdf_file_url = new.pdf_file_url
                 /\ paid.pdf_file_url = new.pdf_file_url
            ELSE /\ new.pdf_file_url = old.pdf_file_url
                 /\ adm.pdf_file_url = old.pdf_file_url

\* C10 witness: an unpaid pdf order was set to completed and got its URL
C10_Witness ==
    /\ resp.op \in {"update_order_status", "admin_update_order_status"}
    /\ resp.code = 200
    /\ \E o \in 1..Len(orders) :
           /\ orders[o].purchase_option = "pdf"
           /\ orders[o].payment_status = "pending"
           /\ orders[o].order_status = "completed"
           /\ orders[o].pdf_file_url = <<"/api/generated/pdf/order_", o, "_book.pdf">>

(***************************************************************************)
(* The example scenario (SpecScenario).                                    *)
(***************************************************************************)
\* the scenario has run to its end
ScenarioDone == resp.op = "verify_payment"

\* the scenario ran without the approve-story operation
AsListed == Len(stories) = 1 /\ stories[1].status = "generated"

\* the order is completed and its deliverable URL is set
OrderDelivered ==
    /\ Len(orders) = 1
    /\ orders[1].purchase_option = "pdf"
    /\ orders[1].order_status = "completed"
    /\ orders[1].pdf_file_url # None

\* C4 as claimed: the sequence create story, generate, generate-illustrations,
\* approve 5 illustrations, createOrder(pdf), verifyPayment, with no other
\* operation in between, ends with the order completed and a non-null
\* pdf_file_url.
C4_ScenarioAsListed ==
    (ScenarioDone /\ AsListed) => OrderDelivered

\* C4 amended: with the story approved between generate and createOrder the
\* sequence ends with verifyPayment answered 200, the order completed and
\* paid and its pdf_file_url set; without that step createOrder is turned
\* away, no order exists and verifyPayment finds none.
C4_ScenarioWithApproval ==
    ScenarioDone =>
        IF stories[1].status = "approved"
        THEN /\ resp.code = 200
             /\ OrderDelivered
             /\ orders[1].payment_status = "completed"
             /\ orders[1].pdf_file_url = PdfFileUrl(1)
        ELSE /\ AsListed
             /\ orders = <<>>
             /\ resp.code = 404

\* C4 witness: the scenario with the approval ran to its end with exactly 5
\* illustrations approved
C4_Witness ==
    /\ ScenarioDone /\ resp.code = 200
    /\ stories[1].status = "approved"
    /\ ApprovedOf(1) = 5
    /\ Len(illustrations) > 5
    /\ OrderDelivered

(***************************************************************************)
(* Illustrations (SpecIllus).                                              *)
(***************************************************************************)
\* no two rows of the table share a story and a page number
OnePerPage(table) ==
    \A i, j \in 1..Len(table) :
        (table[i].story_id = table[j].story_id
         /\ table[i].page_number = table[j].page_number) => i = j

\* the rows of the table for a page of a story
RowsOfPage(table, s, p) ==
    {i \in 1..Len(table) : table[i].story_id = s /\ table[i].page_number = p}

\* C6: no two Illustration records share the same (story, page number), and
\* a generateIllustrations request, through either endpoint, adds a record
\* exactly for the pages of the story that have none: asked again, it adds
\* nothing.
C6_OneIllustrationPerPage ==
    /\ OnePerPage(illustrations)
    /\ \A s \in 1..Len(stories) :
           LET pages == get_pages_content(stories[s])
               r1 == generate_story_illustrations(s).illustrations
               r2 == generate_illustrations(s).illustrations
           IN  pages # <<>> =>
                   /\ r1 = r2
                   /\ OnePerPage(r1)
                   /\ SubSeq(r1, 1, Len(illustrations)) = illustrations
                   /\ \A k \in 1..Len(pages) :
                          Cardinality(RowsOfPage(r1, s, pages[k])) = 1
                   /\ Len(r1) - Len(illustrations) =
                          Cardinality({k \in 1..Len(pages) :
                              RowsOfPage(illustrations, s, pages[k]) = {}})
                   /\ ForEachPage(r1, s, pages, 1) = r1

\* C6 witness: generateIllustrations was asked again for a story one of whose
\* illustrations had been approved and another regenerated, and each page of
\* each story has its one record
C6_Witness ==
    /\ resp.op = "generate_illustrations" /\ resp.code = 200
    /\ Len(illustrations) = ShortStoryPages + 1
    /\ \E i, j \in 1..Len(illustrations) :
           /\ illustrations[i].story_id = 1 /\ illustrations[j].story_id = 1
           /\ illustrations[i].status = "approved"
           /\ illustrations[j].chatgpt_image_url # <<"chatgpt", 1, illustrations[j].page_number>>
    /\ \E i \in 1..Len(illustrations) : illustrations[i].story_id = 2

(***************************************************************************)
(* Stories that orders reference (SpecAfterOrder).                         *)
(***************************************************************************)
\* the story's idea, title, summary and page sequence
StoryContent(story) ==
    <<story.original_idea, story.generated_title, story.generated_summary,
      story.pages_content>>

\* C7 as claimed: once an Order references a Story, no step changes the
\* story's original idea, title, summary, page sequence or status, except
\* the approve operation setting the status to approved; generate and
\* regenerate do not alter it.
C7_OrderedStoryFrozen ==
    [][\A o \in 1..Len(orders) :
          LET old == stories[orders[o].story_id]
              new == stories'[orders[o].story_id]
          IN  \/ StoryContent(new) = StoryContent(old) /\ new.status = old.status
              \/ /\ resp'.op = "approve_story"
                 /\ StoryContent(new) = StoryContent(old)
                 /\ new.status = "approved"]_vars

\* C7 amended: once an Order references a Story, only generate, regenerate
\* and approve change the story: approve sets the status to approved and
\* nothing else; generate sets the status to generated and replaces title,
\* summary and pages but not the original idea; regenerate sets the status
\* to regenerated and replaces the original idea only by a non-empty new
\* idea; no order, payment or illustration operation changes any of them.
C7_OrderedStoryChangesOnlyByStoryOps ==
    [][\A o \in 1..Len(orders) :
          LET old == stories[orders[o].story_id]
              new == stories'[orders[o].story_id]
          IN  CASE resp'.op = "approve_story" ->
                       /\ StoryContent(new) = StoryContent(old)
                       /\ new.status = "approved"
                [] resp'.op = "generate_story_content" ->
                       /\ new.original_idea = old.original_idea
                       /\ new.status = "generated"
                       /\ new.generated_title # None
                       /\ get_pages_content(new) # <<>>
                [] resp'.op = "regenerate_story" ->
                       /\ new.original_idea \in
                              {old.original_idea} \cup (NewIdeaInputs \ {""})
                       /\ new.status = "regenerated"
                       /\ new.generated_title # None
                       /\ get_pages_content(new) # <<>>
                [] OTHER ->
                       /\ StoryContent(new) = StoryContent(old)
                       /\ new.status = old.status]_vars

\* C7 witness: a story that an order references was regenerated with a new
\* idea
C7_Witness ==
    /\ resp.op = "regenerate_story" /\ resp.code = 200
    /\ Len(orders) >= 1
    /\ stories[orders[1].story_id].status = "regenerated"
    /\ stories[orders[1].story_id].original_idea = "a trip to the moon"
    /\ orders[1].book_title # stories[orders[1].story_id].generated_title

(***************************************************************************)
(* One-time passwords (SpecOtp).                                           *)
(***************************************************************************)
\* the normalised e-mail addresses and the codes of verify requests
OtpEmails == {"asha@zingy.in", "ravi@zingy.in"}

\* the unused records of the table for an e-mail and a code
UnusedOtps(table, email, otp_code) ==
    {i \in 1..Len(table) :
        /\ table[i].email = email
        /\ table[i].otp_code = otp_code
        /\ ~table[i].is_used}

\* the records a step has consumed
ConsumedOtps == {i \in 1..Len(otps) : ~otps[i].is_used /\ otps'[i].is_used}

\* verify-otp fails and changes nothing whenever no unused, non-expired record
\* matches the e-mail and the code
NoMatchNoVerify ==
    \A e \in OtpEmails, c \in OtpCodes \cup {"000000"} :
        (\A i \in UnusedOtps(otps, e, c) : now > otps[i].expires_at) =>
            \A otp_id \in FirstMatchingOtp(e, c) :
                LET r == verify_otp(e, c, otp_id) IN
                /\ r.code = 400
                /\ r.error \in {"Invalid OTP", "OTP has expired"}
                /\ r.otps = otps
                /\ r.users = users

\* C8 as claimed: after a successful verify-otp of (email, code), a second
\* verify-otp of the same email and code fails, for every set of outstanding
\* records; and verify-otp fails whenever no unused, non-expired record
\* matches.
C8_SecondVerifyAlwaysFails ==
    /\ []NoMatchNoVerify
    /\ [][(resp'.op = "verify_otp" /\ resp'.code = 200) =>
            \A i \in ConsumedOtps :
                \A otp_id \in FirstMatchingOtp(otps[i].email, otps[i].otp_code)' :
                    verify_otp(otps[i].email, otps[i].otp_code, otp_id)'.code
                        = 400]_vars

\* C8 amended: a successful verify-otp consumes exactly one record, and a
\* second verify-otp of the same email and code fails as 'Invalid OTP' when
\* no other unused record with that email and code is outstanding; a used
\* record never becomes unused; and verify-otp fails whenever no unused,
\* non-expired record matches.
C8_SecondVerifyFailsUnlessTwin ==
    /\ []NoMatchNoVerify
    /\ [][/\ \A i \in 1..Len(otps) :
                 i <= Len(otps') /\ (otps[i].is_used => otps'[i].is_used)
          /\ (resp'.op = "verify_otp" /\ resp'.code = 200) =>
                /\ Cardinality(ConsumedOtps) = 1
                /\ \A i \in ConsumedOtps :
                       UnusedOtps(otps', otps[i].email, otps[i].otp_code) = {} =>
                           \A otp_id \in FirstMatchingOtp(otps[i].email,
                                                          otps[i].otp_code)' :
                               LET r == verify_otp(otps[i].email,
                                                   otps[i].otp_code, otp_id)'
                               IN  /\ r.code = 400
                                   /\ r.error = "Invalid OTP"]_vars

\* C8 witness: two records for one e-mail with the same code were each
\* verified once, and the next verify-otp was answered 'Invalid OTP'
C8_Witness ==
    /\ resp.op = "verify_otp" /\ resp.code = 400 /\ resp.error = "Invalid OTP"
    /\ Len(otps) = 2
    /\ otps[1].email = otps[2].email
    /\ otps[1].otp_code = otps[2].otp_code
    /\ otps[1].is_used /\ otps[2].is_used

(***************************************************************************)
(* The approved-count endpoint (Spec).                                     *)
(***************************************************************************)
\* illustrations of a story, counted from the table
TotalOf(s) ==
    Cardinality({i \in 1..Len(illustrations) : illustrations[i].story_id = s})

\* C11: for every story, approvedCount returns the number of the story's
\* approved illustrations, the number of its illustrations, approved <= total,
\* and readyForPayment exactly when approved >= 5, which is exactly when
\* createOrder's illustration precondition passes for the story.
C11_ApprovedCount ==
    \A s \in 1..Len(stories) :
        LET r == get_approved_illustrations_count(s) IN
        /\ r.code = 200
        /\ r.approved_count = ApprovedOf(s)
        /\ r.total_count = TotalOf(s)
        /\ r.approved_count <= r.total_count
        /\ r.ready_for_payment = (r.approved_count >= 5)
        /\ r.ready_for_payment = EnoughApproved(ApprovedCount(s))
        /\ \A u \in 1..Len(users), b \in {"pdf", "paper", "hard"} :
               LET o == create_payment_order(u, s, b, "", "order_a1") IN
               /\ r.ready_for_payment =>
                      o.error # "At least 5 illustrations must be approved before payment"
               /\ stories[s].status = "approved" =>
                      (r.ready_for_payment = (o.code = 201))

\* C11 witness: the count was asked for a story with exactly 5 of its
\* illustrations approved and one pending
C11_Witness ==
    /\ resp.op = "get_approved_illustrations_count" /\ resp.code = 200
    /\ Len(stories) = 1 /\ Len(users) = 1
    /\ stories[1].status = "approved"
    /\ ApprovedOf(1) = 5
    /\ TotalOf(1) > 5

(***************************************************************************)
(* Regenerating a story (Spec).                                            *)
(***************************************************************************)
\* C12: regenerate, from every prior story status, sets the status to
\* regenerated and replaces title, summary and page sequence with the
\* collaborator's new result; the original idea becomes the new idea when one
\* is supplied and stays as it was when none is.
C12_RegenerateStory ==
    \A s \in 1..Len(stories), idea \in NewIdeaInputs, theme \in Themes :
        LET old == stories[s]
            r == regenerate_story(s, idea, theme, NumPages)
            new == r.stories[s]
            result == generate_story(children[old.child_id].name, theme, NumPages)
        IN  /\ old.status \in {"draft", "generated", "regenerated", "approved"}
            /\ r.code = 200
            /\ new.status = "regenerated"
            /\ new.generated_title = result.title
            /\ new.generated_summary = result.summary
            /\ get_pages_content(new) = result.pages
            /\ new.original_idea = IF idea = "" THEN old.original_idea ELSE idea
            /\ new.child_id = old.child_id
            /\ Len(r.stories) = Len(stories)
            /\ \A other \in 1..Len(stories) :
                   other # s => r.stories[other] = stories[other]

\* C12 witness: a story was regenerated with a new idea
C12_Witness ==
    /\ resp.op = "regenerate_story" /\ resp.code = 200
    /\ Len(stories) = 1
    /\ stories[1].status = "regenerated"
    /\ stories[1].original_idea = "a trip to the moon"
    /\ stories[1].generated_title # None
    /\ get_pages_content(stories[1]) # <<>>

(***************************************************************************)
(* The order of createOrder's preconditions (Spec).                        *)
(***************************************************************************)
\* the failures of a create-order request, by precondition
UserMissing(u) == u \notin 1..Len(users)
StoryMissing(s) == s \notin 1..Len(stories)
StoryUnapproved(s) == ~StoryMissing(s) /\ stories[s].status # "approved"
TooFewApproved(s) == ApprovedOf(s) < 5
BookTypeInvalid(b) == b \notin {"pdf", "paper", "hard"}

\* create-order requests with every required field present
PresentOrderRequests == (1..2) \X (1..2) \X {"pdf", "paper", "hard", "epub"}

\* C13 as claimed: a createOrder request reports the first violated
\* precondition in the order user exists, story exists, story approved, 5
\* approved illustrations, valid bookType.
C13_ClaimedOrder ==
    \A q \in PresentOrderRequests :
        create_payment_order(q[1], q[2], q[3], "", "order_a1").error =
            IF UserMissing(q[1]) THEN "User not found"
            ELSE IF StoryMissing(q[2]) THEN "Story not found"
            ELSE IF StoryUnapproved(q[2])
            THEN "Story must be approved before payment"
            ELSE IF TooFewApproved(q[2])
            THEN "At least 5 illustrations must be approved before payment"
            ELSE IF BookTypeInvalid(q[3]) THEN "Invalid book type"
            ELSE ""

\* C13 amended: a createOrder request reports the first violated
\* precondition in the order valid bookType, user exists, story exists, story
\* approved, 5 approved illustrations, and creates no order when one is
\* violated.
C13_CheckedOrder ==
    \A q \in PresentOrderRequests :
        LET r == create_payment_order(q[1], q[2], q[3], "", "order_a1") IN
        /\ r.error =
               IF BookTypeInvalid(q[3]) THEN "Invalid book type"
               ELSE IF UserMissing(q[1]) THEN "User not found"
               ELSE IF StoryMissing(q[2]) THEN "Story not found"
               ELSE IF StoryUnapproved(q[2])
               THEN "Story must be approved before payment"
               ELSE IF TooFewApproved(q[2])
               THEN "At least 5 illustrations must be approved before payment"
               ELSE ""
        /\ r.error # "" => r.orders = orders /\ r.code \in {400, 404}
        /\ r.error = "" => r.code = 201

\* C13 witness: a request with an unknown user and an invalid bookType was
\* answered 'Invalid book type' for a story that is not approved either
C13_Witness ==
    /\ resp.op = "create_payment_order"
    /\ resp.code = 400 /\ resp.error = "Invalid book type"
    /\ Len(users) = 0
    /\ orders = <<>>

(***************************************************************************)
(* The signature of verifyPayment (SpecOrder).                             *)
(***************************************************************************)
\* signature values of verify requests: empty, the client's, a forged one
SignatureValues == {"", "sig", "forged"}

\* C16 as claimed: for the same gateway order id and payment id, any two
\* signature values, including an empty one, give the same response and the
\* same resulting orders.
C16_AnySignature ==
    \A g \in GatewayOrderIds \cup {"order_zz"}, sig1, sig2 \in SignatureValues :
        verify_payment(g, "pay_k9", sig1) = verify_payment(g, "pay_k9", sig2)

\* C16 amended: for the same gateway order id and payment id, any two
\* non-empty signature values give the same response and the same resulting
\* orders; an empty signature is turned away with 'razorpay_signature is
\* required' and the orders are left as they were.
C16_AnyNonEmptySignature ==
    \A g \in GatewayOrderIds \cup {"order_zz"} :
        /\ \A sig1, sig2 \in SignatureValues \ {""} :
               verify_payment(g, "pay_k9", sig1) = verify_payment(g, "pay_k9", sig2)
        /\ verify_payment(g, "pay_k9", "").code = 400
        /\ verify_payment(g, "pay_k9", "").error = "razorpay_signature is required"
        /\ verify_payment(g, "pay_k9", "").orders = orders
        /\ OrderByGatewayId(g) # 0 => verify_payment(g, "pay_k9", "forged").code = 200

\* C16 witness: a verify request with an empty signature for an existing
\* unpaid order was turned away
C16_Witness ==
    /\ resp.op = "verify_payment"
    /\ resp.code = 400 /\ resp.error = "razorpay_signature is required"
    /\ OrderByGatewayId("order_a1") # 0
    /\ orders[OrderByGatewayId("order_a1")].payment_status = "pending"

(***************************************************************************)
(* Gateway events (SpecOrder).                                             *)
(***************************************************************************)
\* the order after a payment.captured event: the payment id, the two
\* statuses and the modification time are assigned, nothing else
AfterCaptured(order, payment_id) ==
    [order EXCEPT !.razorpay_payment_id = payment_id,
                  !.payment_status = "completed",
                  !.order_status = "payment_confirmed",
                  !.updated_at = now]

\* C17: payment.captured for an existing gateway order id sets the payment
\* id, payment_status=completed and order_status=payment_confirmed and
\* nothing else (no deliverable URL, no move to completed, for a pdf order
\* too); delivering the event again leaves the order as the first delivery
\* left it; any other event type or an unknown order id changes no state.
C17_GatewayEvent ==
    /\ [](\A q \in WebhookRequests \cup {<<"payment.captured", "order_b2", "pay_w7">>} :
            LET r == razorpay_webhook(q[1], q[2], q[3])
                o == IF \E i \in 1..Len(orders) : orders[i].razorpay_order_id = q[2]
                     THEN CHOOSE i \in 1..Len(orders) :
                              /\ orders[i].razorpay_order_id = q[2]
                              /\ \A j \in 1..(i - 1) :
                                     orders[j].razorpay_order_id # q[2]
                     ELSE 0
            IN  /\ r.code = 200
                /\ IF q[1] = "payment.captured" /\ q[3] # "" /\ o # 0
                   THEN /\ r.orders =
                               [orders EXCEPT ![o] = AfterCaptured(@, q[3])]
                        /\ r.orders[o].pdf_file_url = orders[o].pdf_file_url
                        /\ r.orders[o].order_status # "completed"
                   ELSE r.orders = orders)
    /\ [][resp'.op = "razorpay_webhook" =>
            \A q \in WebhookRequests :
                orders' = razorpay_webhook(q[1], q[2], q[3]).orders =>
                    (razorpay_webhook(q[1], q[2], q[3]).orders)' = orders']_vars

\* C17 witness: payment.captured was delivered for an unpaid pdf order
C17_Witness ==
    /\ resp.op = "razorpay_webhook" /\ resp.code = 200
    /\ \E o \in 1..Len(orders) :
           /\ orders[o].purchase_option = "pdf"
           /\ orders[o].razorpay_payment_id = "pay_k9"
           /\ orders[o].payment_status = "completed"
           /\ orders[o].order_status = "payment_confirmed"
           /\ orders[o].pdf_file_url = None

(***************************************************************************)
(* The order createOrder produces (SpecOrder).                             *)
(***************************************************************************)
\* C18: a successful createOrder appends an Order with payment_status
\* pending, order_status new_order, the gateway order id set and the gateway
\* payment id and the deliverable URL null, for every bookType.
C18_NewOrderState ==
    /\ \A u \in UserIdInputs, s \in StoryIdInputs, b \in BookTypeInputs,
          d \in ShippingInputs, g \in GatewayOrderIds :
           LET r == create_payment_order(u, s, b, d, g) IN
           r.code = 201 =>
               LET order == r.orders[Len(r.orders)] IN
               /\ Len(r.orders) = Len(orders) + 1
               /\ b \in {"pdf", "paper", "hard"}
               /\ order.purchase_option = b
               /\ order.payment_status = "pending"
               /\ order.order_status = "new_order"
               /\ order.razorpay_order_id = g
               /\ order.razorpay_order_id \notin {NULL, ""}
               /\ order.razorpay_payment_id = NULL
               /\ order.pdf_file_url = None
    /\ \A b \in {"pdf", "paper", "hard"} :
           create_payment_order(1, 1, b, "", "order_a1").code = 201

\* C18 witness: a hard-cover order has just been created
C18_Witness ==
    /\ resp.op = "create_payment_order" /\ resp.code = 201
    /\ Len(orders) >= 1
    /\ orders[Len(orders)].purchase_option = "hard"
    /\ orders[Len(orders)].payment_status = "pending"
    /\ orders[Len(orders)].order_status = "new_order"
    /\ orders[Len(orders)].razorpay_payment_id = NULL
    /\ orders[Len(orders)].pdf_file_url = None

(***************************************************************************)
(* Unconstrained status changes (SpecOrder).                               *)
(***************************************************************************)
\* the eight order statuses, in workflow order
EightStatuses ==
    {"new_order", "payment_confirmed", "processing_illustrations",
     "customer_approved_book", "sent_for_printing", "packed", "shipped",
     "completed"}

\* the fields of an order a status change must leave alone
OrderFrame(order) ==
    <<order.payment_status, order.razorpay_order_id, order.razorpay_payment_id,
      order.price, order.purchase_option, order.user_id, order.story_id,
      order.book_title, order.shipping_details>>

\* C19: both setOrderStatus endpoints accept each of the eight statuses from
\* every current order_status and payment_status; afterwards order_status is
\* the requested value, payment_status, gateway ids, price and purchase
\* option are as before, and the other orders are untouched.
C19_AnyStatusFromAny ==
    \A o \in 1..Len(orders), st \in EightStatuses :
        LET r == update_order_status(o, st)
            a == admin_update_order_status(o, st)
        IN  /\ orders[o].order_status \in EightStatuses
            /\ r.code = 200 /\ a.code = 200
            /\ r.orders[o].order_status = st
            /\ a.orders[o].order_status = st
            /\ OrderFrame(r.orders[o]) = OrderFrame(orders[o])
            /\ OrderFrame(a.orders[o]) = OrderFrame(orders[o])
            /\ \A other \in 1..Len(orders) :
                   other # o => /\ r.orders[other] = orders[other]
                                /\ a.orders[other] = orders[other]

\* C19 witness: a paid, delivered pdf order was moved back to new_order
C19_Witness ==
    /\ resp.op \in {"update_order_status", "admin_update_order_status"}
    /\ resp.code = 200
    /\ \E o \in 1..Len(orders) :
           /\ orders[o].order_status = "new_order"
           /\ orders[o].payment_status = "completed"
           /\ orders[o].pdf_file_url # None

(***************************************************************************)
(* Errors and the persisted state (SpecFault).                             *)
(***************************************************************************)
\* the persisted tables
Persisted == <<users, children, stories, illustrations, orders, otps>>

\* C14: an operation that returns an error leaves the persisted state
\* identical to the state before the call, whether the error is a
\* not-found, validation or conflict result or a failure raised at a later
\* step, including at the second commit of verifyPayment on a pdf order and
\* of verify-otp for a new email.
C14_ErrorLeavesStateUnchanged ==
    [][resp'.code >= 400 => Persisted' = Persisted]_vars

(***************************************************************************)
(* One verification per OTP record (SpecOtpRace).                          *)
(***************************************************************************)
\* the verify-otp requests that were answered 200 on a record
VerifiedBy(i) ==
    {k \in 1..Len(requests) :
        /\ requests[k].op = "verify_otp"
        /\ requests[k].pc = "done" /\ requests[k].code = 200
        /\ requests[k].otp_id = i}

\* C15: each OTP record leads to at most one successful verify-otp, in every
\* sequence of send-otp and verify-otp requests and in every interleaving of
\* two verify-otp requests for the same email and code, and to none that
\* found the record after its expiry.
C15_OneVerifyPerRecord ==
    \A i \in 1..Len(otps) :
        /\ Cardinality(VerifiedBy(i)) <= 1
        /\ \A k \in VerifiedBy(i) : requests[k].checked_at <= otps[i].expires_at

(***************************************************************************)
(* Racing illustration requests (SpecIllusRace).                           *)
(***************************************************************************)
\* the requests answered 200 that found no record for page p of story s and
\* inserted one
InsertedBy(s, p) ==
    {n \in 1..Len(requests) :
        /\ requests[n].pc = "done" /\ requests[n].code = 200
        /\ requests[n].story_id = s
        /\ RowsOfPage(requests[n].added, s, p) # {}}

\* C20: when the check-then-insert steps of two generateIllustrations
\* requests for a story interleave so that both find no record for a page
\* and both insert one, the table holds both records for that (story, page
\* number): every request's inserts are stored, nothing rejects or merges
\* them.
C20_RaceInsertsDuplicates ==
    \A s \in 1..Len(stories) : \A k \in 1..Len(TemplatePageNumbers) :
        LET p == TemplatePageNumbers[k] IN
        Cardinality(RowsOfPage(illustrations, s, p))
            = Cardinality(InsertedBy(s, p))

\* C20 witness: two requests for story 1 were answered 200, both inserted a
\* record for its first page, and the table holds two records for that page
C20_Witness ==
    /\ Cardinality(InsertedBy(1, TemplatePageNumbers[1])) = 2
    /\ Cardinality(RowsOfPage(illustrations, 1, TemplatePageNumbers[1])) = 2
    /\ ~OnePerPage(illustrations)

(***************************************************************************)
(* verify_payment among other requests (SpecOrderRace).                    *)
(***************************************************************************)
\* a pdf order as verify_payment leaves it between its two commits
MidVerify(order) ==
    /\ order.purchase_option = "pdf"
    /\ order.payment_status = "completed"
    /\ order.order_status = "payment_confirmed"
    /\ order.pdf_file_url = None

\* verify_payment requests that have committed once and not yet answered
VerifyingNow(order_id) ==
    {j \in 1..Len(requests) :
        /\ requests[j].op = "verify_payment"
        /\ requests[j].order_id = order_id
        /\ requests[j].pc \in {"reloading", "committing_pdf"}}

\* C21: verifyPayment on a pdf order is one atomic transition of the
\* persisted order: a request that reads the order while a verifyPayment
\* for it has started and not ended (a read, setOrderStatus or
\* handleGatewayEvent) never finds it with payment_status=completed,
\* order_status=payment_confirmed and no deliverable URL.
C21_VerifyPaymentAtomic ==
    [][\A k \in 1..Len(requests') :
          (/\ k > Len(requests)
           /\ requests'[k].op # "verify_payment"
           /\ requests'[k].order_id # 0
           /\ VerifyingNow(requests'[k].order_id) # {})
              => ~MidVerify(requests'[k].loaded)]_vars

(***************************************************************************)
(* A payment event delivered again (SpecOrder).                            *)
(***************************************************************************)
\* C22: re-delivering payment.captured for a pdf order that verifyPayment
\* has completed is harmless: after the event the order still has
\* order_status=completed and its deliverable URL, so payment events alone
\* never leave a paid digital order in payment_confirmed.
C22_RedeliveryHarmless ==
    \A o \in 1..Len(orders) :
        (/\ resp.op = "verify_payment" /\ resp.code = 200
         /\ orders[o].purchase_option = "pdf"
         /\ orders[o].payment_status = "completed"
         /\ orders[o].order_status = "completed"
         /\ orders[o].pdf_file_url = PdfFileUrl(o))
            => LET after == razorpay_webhook("payment.captured",
                                orders[o].razorpay_order_id,
                                orders[o].razorpay_payment_id).orders[o]
               IN  /\ after.order_status = "completed"
                   /\ after.pdf_file_url = PdfFileUrl(o)

(***************************************************************************)
(* Two status updates at the same time (SpecOrderRace).                    *)
(***************************************************************************)
\* the update-status requests, of either endpoint, answered 200
StatusUpdated ==
    {k \in 1..Len(requests) :
        /\ requests[k].op \in {"update_order_status",
                               "admin_update_order_status"}
        /\ requests[k].pc = "done" /\ requests[k].code = 200}

\* a and b are the two requests that have committed, b after a, and b read
\* the order before a committed
RacedUpdates(a, b) ==
    /\ a \in StatusUpdated /\ b \in StatusUpdated
    /\ requests[a].order_id = requests[b].order_id
    /\ requests[a].commit = 1 /\ requests[b].commit = 2
    /\ requests[b].read_at = 0
    /\ \A k \in 1..Len(requests) : k \notin {a, b} => requests[k].commit = 0

\* a pdf order that is completed has its deliverable URL
CompletedPdfHasUrl(order) ==
    (order.purchase_option = "pdf" /\ order.order_status = "completed")
        => order.pdf_file_url # None

\* every update-status request that passed validation is answered 200
ValidUpdatesSucceed ==
    \A k \in 1..Len(requests) :
        (/\ requests[k].op \in {"update_order_status",
                                "admin_update_order_status"}
         /\ requests[k].order_id # 0
         /\ requests[k].new_status \in valid_statuses)
            => requests[k].code \in {0, 200}

\* C23 as stated: when two setOrderStatus requests with valid statuses for
\* the same order run concurrently, both succeed, the final order_status is
\* the status of the request that commits last, and a pdf order ending in
\* completed has its deliverable URL.
C23_LastCommitWins ==
    /\ ValidUpdatesSucceed
    /\ \A a, b \in 1..Len(requests) :
           RacedUpdates(a, b) =>
               LET order == orders[requests[b].order_id] IN
               /\ order.order_status = requests[b].new_status
               /\ CompletedPdfHasUrl(order)

\* C23 amended: when two setOrderStatus requests with valid statuses for the
\* same order run concurrently, both succeed; the final order_status is the
\* status of the request that commits last when that status differs from
\* the one the request read, and otherwise the status of the request that
\* committed first (a request that asks for the status it read writes no
\* status); it is never a third value, and a pdf order ending in completed
\* has its deliverable URL.
C23_LastStatusWriteWins ==
    /\ ValidUpdatesSucceed
    /\ \A a, b \in 1..Len(requests) :
           RacedUpdates(a, b) =>
               LET order == orders[requests[b].order_id] IN
               /\ order.order_status =
                      IF requests[b].new_status
                             # requests[b].loaded.order_status
                      THEN requests[b].new_status
                      ELSE requests[a].new_status
               /\ order.order_status \in {requests[a].new_status,
                                          requests[b].new_status}
               /\ CompletedPdfHasUrl(order)

\* C23 witness: of two raced updates of a pdf order the first asked for
\* completed and the second for the status it had read; the order is
\* completed, with its URL
C23_Witness ==
    \E a, b \in 1..Len(requests) :
        /\ RacedUpdates(a, b)
        /\ requests[a].new_status = "completed"
        /\ requests[b].new_status = requests[b].loaded.order_status
        /\ requests[b].new_status # "completed"
        /\ orders[requests[b].order_id].purchase_option = "pdf"
        /\ orders[requests[b].order_id].order_status = "completed"
        /\ orders[requests[b].order_id].pdf_file_url
               = PdfFileUrl(requests[b].order_id)

(***************************************************************************)
(* Approving and regenerating an illustration (SpecIllus).                 *)
(***************************************************************************)
\* the URLs an approve request for illustration i may carry: none, the empty
\* one, each offered candidate, and one that was never offered
UrlChoices(i) ==
    {None, EmptyUrl, <<"https://cdn.example/pick.jpg">>}
        \cup (IF Exists(illustrations, i)
              THEN {illustrations[i].chatgpt_image_url,
                    illustrations[i].leonardo_images[2][1],
                    illustrations[i].leonardo_images[2][2]}
              ELSE {})

\* the tables differ at most in row i
SameButRow(table, other, i) ==
    /\ Len(table) = Len(other)
    /\ \A j \in 1..Len(table) : j # i => table[j] = other[j]

\* C24: approve(illustration, chosenUrl) with a non-empty chosenUrl, from
\* either status and for any URL, offered or not, sets approved_image_url to
\* chosenUrl and status to approved and changes no other illustration; with
\* an empty or missing chosenUrl, or an illustration that does not exist, it
\* fails and changes nothing.
C24_ApproveIllustration ==
    \A i \in 1..(Len(illustrations) + 1) : \A url \in UrlChoices(i) :
        LET r == approve_illustration(i, url) IN
        IF i <= Len(illustrations) /\ url # None /\ url # EmptyUrl
        THEN /\ r.code = 200
             /\ r.illustrations[i].approved_image_url = url
             /\ r.illustrations[i].status = "approved"
             /\ r.illustrations[i].story_id = illustrations[i].story_id
             /\ r.illustrations[i].page_number = illustrations[i].page_number
             /\ SameButRow(r.illustrations, illustrations, i)
        ELSE /\ r.code \in {400, 404}
             /\ r.illustrations = illustrations

\* C24 witness: an approve request was answered 200, an approved
\* illustration carries a URL that is none of its candidates, and another
\* illustration is still pending
C24_Witness ==
    /\ resp.op = "approve_illustration" /\ resp.code = 200
    /\ \E i, j \in 1..Len(illustrations) :
           /\ illustrations[i].status = "approved"
           /\ illustrations[i].approved_image_url
                  = <<"https://cdn.example/pick.jpg">>
           /\ illustrations[j].status = "pending"
           /\ illustrations[j].approved_image_url = None

\* approved illustrations of story s in a table
ApprovedIn(table, s) ==
    Cardinality({j \in 1..Len(table) :
        table[j].story_id = s /\ table[j].status = "approved"})

\* C25: regenerate(illustration), from either status, leaves the
\* illustration pending with a null approved URL, keeps its story and page
\* number, creates no Illustration record, and lowers the story's approved
\* count by exactly one when the illustration was approved and by zero
\* otherwise.
C25_RegenerateIllustration ==
    \A i \in 1..Len(illustrations) :
        LET r == regenerate_illustration(i)
            s == illustrations[i].story_id
        IN  /\ r.code = 200
            /\ r.illustrations[i].status = "pending"
            /\ r.illustrations[i].approved_image_url = None
            /\ r.illustrations[i].story_id = s
            /\ r.illustrations[i].page_number = illustrations[i].page_number
            /\ SameButRow(r.illustrations, illustrations, i)
            /\ ApprovedIn(r.illustrations, s) =
                   ApprovedIn(illustrations, s)
                       - (IF illustrations[i].status = "approved" THEN 1
                          ELSE 0)

\* C25 witness: a regenerate request was answered 200 for an illustration
\* of story 1, now pending with regenerated candidates, while another
\* illustration of the story is approved
C25_Witness ==
    /\ resp.op = "regenerate_illustration" /\ resp.code = 200
    /\ \E i, j \in 1..Len(illustrations) :
           /\ illustrations[i].story_id = 1 /\ illustrations[j].story_id = 1
           /\ Len(illustrations[i].chatgpt_image_url) = 4
           /\ illustrations[i].status = "pending"
           /\ illustrations[i].approved_image_url = None
           /\ illustrations[j].status = "approved"

(***************************************************************************)
(* Candidates of a regenerated illustration (SpecRegen).                   *)
(***************************************************************************)
\* C26: every regenerate(illustration) yields primary and alternative
\* candidate URLs that differ from those of the preceding attempt for that
\* illustration (the initial generation or a previous regenerate), whenever
\* the two attempts happen, two regenerations within the same clock second
\* included.
C26_FreshCandidates ==
    \A i \in 1..Len(illustrations) :
        LET before == illustrations[i]
            after == regenerate_illustration(i).illustrations[i]
        IN  /\ after.chatgpt_image_url # before.chatgpt_image_url
            /\ after.leonardo_images[2][1] # before.leonardo_images[2][1]
            /\ after.leonardo_images[2][2] # before.leonardo_images[2][2]

(***************************************************************************)
(* generateIllustrations (SpecIllus).                                      *)
(***************************************************************************)
\* the page numbers of story s that have no row in the table
PagesWithout(table, s) ==
    LET pages == get_pages_content(stories[s]) IN
    {pages[k] : k \in {n \in 1..Len(pages) : RowsOfPage(table, s, pages[n]) = {}}}

\* what either endpoint answered for story s is as claimed
GeneratedAsClaimed(r, s) ==
    LET pages == get_pages_content(stories[s])
        fresh == (Len(illustrations) + 1)..Len(r.illustrations)
    IN  IF pages = <<>>
        THEN /\ r.code = 400 /\ r.error = "Story content not found"
             /\ r.illustrations = illustrations
        ELSE /\ r.code = 200
             /\ SubSeq(r.illustrations, 1, Len(illustrations)) = illustrations
             /\ r.generated_count = Cardinality(PagesWithout(illustrations, s))
             /\ r.generated_count = Cardinality(fresh)
             /\ {r.illustrations[j].page_number : j \in fresh}
                    = PagesWithout(illustrations, s)
             /\ \A j \in fresh :
                    /\ r.illustrations[j].story_id = s
                    /\ r.illustrations[j].status = "pending"
                    /\ r.illustrations[j].approved_image_url = None
                    /\ Len(r.illustrations[j].leonardo_images[2]) = 2

\* C27: generateIllustrations on a story with an empty or absent page
\* sequence fails with 'story content not found' and creates no
\* Illustration; otherwise it creates one pending Illustration (null approved
\* URL, two alternative candidates) for exactly the page numbers of the story
\* that have none yet, reports that number as the count and leaves the
\* existing Illustrations unchanged; invoked again at once, it reports 0.
C27_GenerateIllustrations ==
    /\ [](\A s \in 1..Len(stories) :
              /\ GeneratedAsClaimed(generate_story_illustrations(s), s)
              /\ GeneratedAsClaimed(generate_illustrations(s), s))
    /\ [][\A s \in 1..Len(stories) :
              (/\ resp'.op \in {"generate_story_illustrations",
                                "generate_illustrations"}
               /\ resp'.code = 200
               /\ illustrations'
                      = generate_story_illustrations(s).illustrations)
                  => /\ generate_story_illustrations(s).generated_count' = 0
                     /\ generate_illustrations(s).generated_count' = 0
                     /\ generate_illustrations(s).illustrations'
                            = illustrations']_vars

\* C27 witness: generateIllustrations was answered 200 for story 1, whose
\* ShortStoryPages pages each have their record, one of them an approved one
\* that was there before
C27_Witness ==
    /\ resp.op \in {"generate_story_illustrations", "generate_illustrations"}
    /\ resp.code = 200
    /\ Len(get_pages_content(stories[1])) = ShortStoryPages
    /\ PagesWithout(illustrations, 1) = {}
    /\ \E i \in 1..Len(illustrations) :
           /\ illustrations[i].story_id = 1
           /\ illustrations[i].status = "approved"
    /\ illustrations[Len(illustrations)].story_id = 1
    /\ illustrations[Len(illustrations)].status = "pending"

(***************************************************************************)
(* Shipping details of an order (SpecOrder).                               *)
(***************************************************************************)
\* C28: createOrder persists the supplied shipping details only when
\* bookType is paper or hard; for a pdf order they are discarded and the
\* order's shipping details stay empty; and no later operation
\* (verifyPayment, handleGatewayEvent, setOrderStatus) changes an order's
\* shipping details.
C28_ShippingDetails ==
    /\ [](\A b \in BookTypes, details \in ShippingInputs :
              LET r == create_payment_order(1, 1, b, details, "order_new")
                  order == r.orders[Len(r.orders)]
              IN  /\ r.code = 201
                  /\ Len(r.orders) = Len(orders) + 1
                  /\ get_shipping_details(order) =
                         IF b \in {"paper", "hard"} THEN details ELSE ""
                  /\ b = "pdf" => order.shipping_details = None)
    /\ [][\A o \in 1..Len(orders) :
              orders'[o].shipping_details = orders[o].shipping_details]_vars

\* C28 witness: a pdf order, created with shipping details in the request,
\* was paid and then had its status set, and holds no shipping details
C28_Witness ==
    /\ resp.op \in {"update_order_status", "admin_update_order_status"}
    /\ resp.code = 200
    /\ \E o \in 1..Len(orders) :
           /\ orders[o].purchase_option = "pdf"
           /\ orders[o].payment_status = "completed"
           /\ orders[o].order_status = "packed"
           /\ orders[o].shipping_details = None
           /\ get_shipping_details(orders[o]) = ""

(***************************************************************************)
(* A story whose content was generated again (Spec).                       *)
(***************************************************************************)
\* C29: generate sets story.status to generated and regenerate sets it to
\* regenerated from every prior status, approved included; after either,
\* createOrder for the story fails, even with 5 or more approved
\* illustrations, until approve is called again.
C29_ApprovalLostOnGenerate ==
    /\ [](\A s \in 1..Len(stories) :
              /\ generate_story_content(s, story_themes[1], NumPages)
                     .stories[s].status = "generated"
              /\ \A idea \in NewIdeaInputs :
                     regenerate_story(s, idea, story_themes[1], NumPages)
                         .stories[s].status = "regenerated"
              /\ stories[s].status \in {"generated", "regenerated"} =>
                     \A u \in 1..Len(users), b \in BookTypes :
                         LET r == create_payment_order(u, s, b, "", "order_new")
                         IN  /\ r.code = 400
                             /\ r.error = "Story must be approved before payment"
                             /\ r.orders = orders)
    /\ [][\A s \in 1..Len(stories) :
              (stories[s].status # "approved"
               /\ stories'[s].status = "approved")
                  => (resp'.op = "approve_story" /\ resp'.code = 200)]_vars

\* C29 witness: a story that was regenerated has MinApprovedIllustrations
\* approved illustrations, and createOrder was refused for it
C29_Witness ==
    /\ resp.op = "create_payment_order" /\ resp.code = 400
    /\ resp.error = "Story must be approved before payment"
    /\ \E s \in 1..Len(stories) :
           /\ stories[s].status = "regenerated"
           /\ ApprovedCount(s) >= MinApprovedIllustrations

(***************************************************************************)
(* One user per e-mail address (SpecAuth).                                 *)
(***************************************************************************)
\* the users whose e-mail is that of the request
UsersOf(email_in) ==
    {i \in 1..Len(users) :
        lower_strip(users[i].email) = lower_strip(email_in)}

\* the result table is the users table with at most the rows `linked`
\* changed in their external identity id
SameUsersBut(table, linked) ==
    /\ Len(table) = Len(users)
    /\ \A i \in 1..Len(users) :
           IF i \in linked
           THEN [table[i] EXCEPT !.google_id = NULL]
                    = [users[i] EXCEPT !.google_id = NULL]
           ELSE table[i] = users[i]

\* C30: after any sequence of register, external-identity login and
\* verify-otp requests no two User records have the same (lower-cased,
\* trimmed) email: register with an email that belongs to a user fails and
\* changes nothing, external-identity login and verify-otp create a user
\* only when none exists for the email, and external-identity login never
\* overwrites an external identity id that is set.
C30_OneUserPerEmail ==
    /\ \A i, j \in 1..Len(users) :
           lower_strip(users[i].email) = lower_strip(users[j].email) => i = j
    /\ \A e \in AuthEmails :
           /\ UsersOf(e) # {} =>
                  \A password \in {"", "s3cret"} :
                      /\ register(e, "Meera", password).code = 400
                      /\ register(e, "Meera", password).users = users
           /\ \A g \in GoogleIds :
                  LET r == google_auth(e, g, NULL) IN
                  /\ UsersOf(e) # {} =>
                         /\ SameUsersBut(r.users, UsersOf(e))
                         /\ \A i \in UsersOf(e) :
                                users[i].google_id # NULL =>
                                    r.users[i].google_id = users[i].google_id
                  /\ UsersOf(e) = {} =>
                         /\ SubSeq(r.users, 1, Len(users)) = users
                         /\ Len(r.users) <= Len(users) + 1
           /\ \A c \in OtpCodes : \A otp_id \in FirstMatchingOtp(e, c) :
                  LET r == verify_otp(e, c, otp_id) IN
                  /\ UsersOf(e) # {} => r.users = users
                  /\ UsersOf(e) = {} =>
                         /\ SubSeq(r.users, 1, Len(users)) = users
                         /\ Len(r.users) <= Len(users) + 1

\* C30 witness: a register request for a taken address was refused; one
\* user registered with a password and was then linked to an external
\* identity, and another was created by verify-otp
C30_Witness ==
    /\ resp.op = "register" /\ resp.code = 400
    /\ resp.error = "User with this email already exists"
    /\ \E i, j \in 1..Len(users) :
           /\ users[i].email = "asha@zingy.in"
           /\ users[i].password_hash # None
           /\ users[i].google_id = "g-1"
           /\ users[j].email = "ravi@zingy.in"
           /\ users[j].name = "ravi"
           /\ users[j].password_hash = None
           /\ users[j].google_id = NULL


(***************************************************************************)
(* C31                                                                     *)
(***************************************************************************)
\* the verify-otp requests that carry an e-mail and a code
FilledVerifyOtpRequests == {q \in VerifyOtpRequests : q[1] # "" /\ q[2] # ""}

\* the record verify-otp selected is a most recently created one of rows
MostRecentOf(rows, otp_id) ==
    IF rows = {} THEN otp_id = 0
    ELSE /\ otp_id \in rows
         /\ \A j \in rows : otps[j].created_at <= otps[otp_id].created_at

\* the users table after the first verification for email
WithOtpUser(table, email) ==
    IF \E u \in 1..Len(users) : users[u].email = email THEN table = users
    ELSE /\ Len(table) = Len(users) + 1
         /\ SubSeq(table, 1, Len(users)) = users
         /\ table[Len(table)].email = email

\* C31: verify-otp selects a most recently created unused record matching
\* (email, code); it succeeds when the current time is at most creation + 10
\* minutes, the expiry instant included, and is rejected as expired when the
\* time is later; a rejected verification (no match or expired) leaves every
\* used flag unchanged and creates no user; a successful one marks exactly
\* the selected record used and creates a user only if none exists for the
\* e-mail.
C31_VerifyOtpExpiry ==
    /\ [](\A q \in FilledVerifyOtpRequests :
            \A otp_id \in FirstMatchingOtp(q[1], q[2]) :
                LET email == lower_strip(q[1])
                    r == verify_otp(q[1], q[2], otp_id)
                IN  /\ MostRecentOf(UnusedOtps(otps, email, q[2]), otp_id)
                    /\ otp_id = 0 => r.code = 400 /\ r.error = "Invalid OTP"
                    /\ otp_id # 0 =>
                          IF now <= otps[otp_id].created_at + OtpLifetimeMinutes
                          THEN /\ r.code = 200
                               /\ r.otps = [otps EXCEPT ![otp_id].is_used = TRUE]
                               /\ WithOtpUser(r.users, email)
                          ELSE r.code = 400 /\ r.error = "OTP has expired"
                    /\ r.code # 200 => r.otps = otps /\ r.users = users)
    /\ [][resp'.op = "verify_otp" =>
            IF resp'.code = 200
            THEN /\ Cardinality(ConsumedOtps) = 1
                 /\ Len(users') <= Len(users) + 1
            ELSE otps' = otps /\ users' = users]_vars

\* C31 witness: a record created at instant 0 was verified at its expiry
\* instant, which created the user of its e-mail
C31_Witness ==
    /\ resp.op = "verify_otp" /\ resp.code = 200
    /\ Len(otps) >= 1
    /\ otps[1].created_at = 0
    /\ otps[1].is_used
    /\ now = otps[1].created_at + OtpLifetimeMinutes
    /\ Len(users) = 1
    /\ users[1].email = otps[1].email


(***************************************************************************)
(* C32                                                                     *)
(***************************************************************************)
\* the approved URL of a row is there exactly when its status is approved
ApprovalConsistent(ill) ==
    /\ ill.status \in {"pending", "approved"}
    /\ (ill.status = "approved") <=> (ill.approved_image_url # None)

\* C32: in every state reached by generateIllustrations (either endpoint),
\* approve and regenerate requests in any order, an Illustration has status
\* approved if and only if its approved_image_url is non-null; a pending
\* illustration never carries an approved URL.
C32_ApprovedIffUrl ==
    \A i \in 1..Len(illustrations) : ApprovalConsistent(illustrations[i])

\* C32 witness: an approved row was regenerated while another row of the
\* table is approved
C32_Witness ==
    /\ resp.op = "regenerate_illustration" /\ resp.code = 200
    /\ \E i, j \in 1..Len(illustrations) :
           /\ illustrations[i].status = "approved"
           /\ illustrations[i].approved_image_url # None
           /\ illustrations[j].status = "pending"
           /\ illustrations[j].approved_image_url = None
           /\ illustrations[j].chatgpt_image_url[1] = "chatgpt"
           /\ Len(illustrations[j].chatgpt_image_url) = 4


(***************************************************************************)
(* C33                                                                     *)
(***************************************************************************)
\* C33 as claimed: for every existing Order, in every reachable state, the
\* order's story has at least 5 Illustrations with status approved.
C33_OrderKeepsFiveApproved ==
    \A o \in 1..Len(orders) :
        ApprovedIn(illustrations, orders[o].story_id) >= MinApprovedIllustrations

\* C33 amended: the story of an Order has at least 5 approved Illustrations
\* when the order is created; afterwards no order, payment or story request
\* changes the count and approve never lowers it, but regenerate on an
\* approved illustration lowers it by one whether or not the story has an
\* order, so the count of an ordered story can fall below 5.
C33_FiveApprovedAtCreation ==
    /\ [](\A i \in 1..Len(illustrations) :
            illustrations[i].status = "approved" =>
                LET r == regenerate_illustration(i)
                    s == illustrations[i].story_id
                IN  /\ r.code = 200
                    /\ ApprovedIn(r.illustrations, s)
                           = ApprovedIn(illustrations, s) - 1)
    /\ [][/\ (resp'.op = "create_payment_order" /\ resp'.code = 201) =>
                ApprovedIn(illustrations', orders'[Len(orders')].story_id)
                    >= MinApprovedIllustrations
          /\ \A o \in 1..Len(orders) :
                LET old == ApprovedIn(illustrations, orders[o].story_id)
                    new == ApprovedIn(illustrations', orders[o].story_id)
                IN  CASE resp'.op = "approve_illustration" -> new >= old
                      [] resp'.op = "regenerate_illustration" ->
                             new \in {old, old - 1}
                      [] OTHER -> new = old]_vars

\* C33 witness: an approved illustration of an ordered story was
\* regenerated, which leaves the story with fewer than 5 approved
C33_Witness ==
    /\ resp.op = "regenerate_illustration" /\ resp.code = 200
    /\ Len(orders) >= 1
    /\ ApprovedIn(illustrations, orders[1].story_id) < MinApprovedIllustrations


(***************************************************************************)
(* C34                                                                     *)
(***************************************************************************)
\* C34 as claimed: an Order has a deliverable URL only if its payment_status
\* is completed, in every state reached by createOrder, setOrderStatus,
\* verifyPayment and handleGatewayEvent.
C34_UrlOnlyWhenPaid ==
    \A o \in 1..Len(orders) :
        orders[o].pdf_file_url # None => orders[o].payment_status = "completed"

\* the orders that a step gave a deliverable URL
UrlSetNow == {o \in 1..Len(orders') :
                /\ orders'[o].pdf_file_url # None
                /\ (o > Len(orders) \/ orders[o].pdf_file_url = None)}

\* C34 amended: createOrder and handleGatewayEvent never set a deliverable
\* URL and verifyPayment sets it together with payment_status completed, but
\* setOrderStatus(completed), through either endpoint, sets it on a pdf
\* order that has none whatever the payment_status, which it leaves as it
\* is: an unpaid pdf order can have a deliverable URL.
C34_UrlWhenPaidOrSetCompleted ==
    /\ [](\A o \in 1..Len(orders) :
            (orders[o].purchase_option = "pdf" /\ orders[o].pdf_file_url = None) =>
                LET r == update_order_status(o, "completed")
                    a == admin_update_order_status(o, "completed")
                IN  /\ r.code = 200 /\ a.code = 200
                    /\ r.orders[o].pdf_file_url = PdfFileUrl(o)
                    /\ a.orders[o].pdf_file_url = PdfFileUrl(o)
                    /\ r.orders[o].payment_status = orders[o].payment_status
                    /\ a.orders[o].payment_status = orders[o].payment_status)
    /\ [][\A o \in UrlSetNow :
            \/ /\ resp'.op = "verify_payment"
               /\ orders'[o].payment_status = "completed"
            \/ /\ resp'.op \in {"update_order_status",
                                "admin_update_order_status"}
               /\ orders'[o].order_status = "completed"
               /\ orders'[o].payment_status = orders[o].payment_status]_vars

\* C34 witness: setOrderStatus(completed) gave an unpaid pdf order its URL
C34_Witness ==
    /\ resp.op = "update_order_status" /\ resp.code = 200
    /\ Len(orders) >= 1
    /\ orders[1].purchase_option = "pdf"
    /\ orders[1].payment_status = "pending"
    /\ orders[1].order_status = "completed"
    /\ orders[1].pdf_file_url = PdfFileUrl(1)


(***************************************************************************)
(* C35                                                                     *)
(***************************************************************************)
\* C35: payment_status starts at pending, becomes completed only through
\* verifyPayment or a payment.captured event, and once completed stays
\* completed in every later state; the value failed is never reached.
C35_PaymentStatusMonotone ==
    /\ [](\A o \in 1..Len(orders) :
            orders[o].payment_status \in {"pending", "completed"})
    /\ [][\A o \in 1..Len(orders') :
            IF o > Len(orders)
            THEN orders'[o].payment_status = "pending"
            ELSE /\ orders[o].payment_status = "completed" =>
                        orders'[o].payment_status = "completed"
                 /\ orders'[o].payment_status # orders[o].payment_status =>
                        /\ resp'.op \in {"verify_payment", "razorpay_webhook"}
                        /\ orders[o].payment_status = "pending"
                        /\ orders'[o].payment_status = "completed"]_vars

\* C35 witness: a paid order was set back to new_order and is still paid
C35_Witness ==
    /\ resp.op = "update_order_status" /\ resp.code = 200
    /\ Len(orders) >= 1
    /\ orders[1].payment_status = "completed"
    /\ orders[1].order_status = "new_order"


(***************************************************************************)
(* C36                                                                     *)
(***************************************************************************)
\* C36: in every state between requests a pdf order with order_status
\* completed has a non-null deliverable URL, whichever of verifyPayment,
\* setOrderStatus (either endpoint) and handleGatewayEvent brought it there,
\* and a deliverable URL once set is never cleared or changed.
C36_CompletedPdfDeliverable ==
    /\ [](\A o \in 1..Len(orders) :
            (orders[o].purchase_option = "pdf"
                /\ orders[o].order_status = "completed") =>
                    orders[o].pdf_file_url # None)
    /\ [][\A o \in 1..Len(orders) :
            orders[o].pdf_file_url # None =>
                orders'[o].pdf_file_url = orders[o].pdf_file_url]_vars

\* C36 witness: the admin endpoint completed an unpaid pdf order, which has
\* the URL of its id
C36_Witness ==
    /\ resp.op = "admin_update_order_status" /\ resp.code = 200
    /\ Len(orders) >= 1
    /\ orders[1].purchase_option = "pdf"
    /\ orders[1].order_status = "completed"
    /\ orders[1].payment_status = "pending"
    /\ orders[1].pdf_file_url = PdfFileUrl(1)


(***************************************************************************)
(* C37                                                                     *)
(***************************************************************************)
\* C37: a paper or hard order never has a deliverable URL: pdf_file_url is
\* null for every non-pdf order in every reachable state, also after
\* verifyPayment and after setOrderStatus(completed) through either endpoint.
C37_PrintedOrderHasNoUrl ==
    \A o \in 1..Len(orders) :
        orders[o].purchase_option # "pdf" =>
            /\ orders[o].purchase_option \in {"paper", "hard"}
            /\ orders[o].pdf_file_url = None
            /\ LET r == update_order_status(o, "completed")
                   a == admin_update_order_status(o, "completed")
                   v == verify_payment(orders[o].razorpay_order_id, "pay_k9", "sig")
               IN  /\ r.code = 200 /\ a.code = 200 /\ v.code = 200
                   /\ r.orders[o].order_status = "completed"
                   /\ r.orders[o].pdf_file_url = None
                   /\ a.orders[o].order_status = "completed"
                   /\ a.orders[o].pdf_file_url = None
                   /\ v.orders[o].pdf_file_url = None

\* C37 witness: a paid printed order was set to completed and has no URL
C37_Witness ==
    /\ resp.op = "update_order_status" /\ resp.code = 200
    /\ Len(orders) >= 1
    /\ orders[1].purchase_option = "hard"
    /\ orders[1].payment_status = "completed"
    /\ orders[1].order_status = "completed"
    /\ orders[1].pdf_file_url = None


(***************************************************************************)
(* C38                                                                     *)
(***************************************************************************)
\* C38: in every reachable state an Order's gateway payment id is non-null
\* (and non-empty) if and only if its payment_status is completed, and
\* setOrderStatus, through either endpoint, changes neither field.
C38_PaymentIdIffPaid ==
    /\ [](\A o \in 1..Len(orders) :
            ~Falsy(orders[o].razorpay_payment_id)
                <=> (orders[o].payment_status = "completed"))
    /\ [][resp'.op \in {"update_order_status", "admin_update_order_status"} =>
            /\ Len(orders') = Len(orders)
            /\ \A o \in 1..Len(orders) :
                  /\ orders'[o].razorpay_payment_id = orders[o].razorpay_payment_id
                  /\ orders'[o].payment_status = orders[o].payment_status]_vars

\* C38 witness: a paid order was moved to shipped by the admin endpoint and
\* keeps its payment id
C38_Witness ==
    /\ resp.op = "admin_update_order_status" /\ resp.code = 200
    /\ Len(orders) >= 1
    /\ orders[1].payment_status = "completed"
    /\ orders[1].razorpay_payment_id = "pay_k9"
    /\ orders[1].order_status = "shipped"


(***************************************************************************)
(* C39                                                                     *)
(***************************************************************************)
\* the story has a generated title and a non-empty page sequence
HasContent(story) ==
    story.generated_title # None /\ get_pages_content(story) # <<>>

\* C39 as claimed: every Story with status approved, in every reachable
\* state, has a non-null generated title and a non-empty page sequence.
C39_ApprovedHasContent ==
    \A s \in 1..Len(stories) :
        stories[s].status = "approved" => HasContent(stories[s])

\* C39 amended: approve succeeds on every existing story, a draft without
\* content included, and changes the status only; a story with status
\* generated or regenerated has a generated title and a non-empty page
\* sequence, a draft has neither, and an approved story has them exactly
\* when content was generated before; content that is there is never
\* removed.
C39_ApproveKeepsContent ==
    /\ [](\A s \in 1..Len(stories) :
            /\ stories[s].status \in {"generated", "regenerated"} =>
                   HasContent(stories[s])
            /\ stories[s].status = "draft" =>
                   /\ stories[s].generated_title = None
                   /\ get_pages_content(stories[s]) = <<>>
            /\ LET r == approve_story(s)
               IN  /\ r.code = 200
                   /\ r.stories[s].status = "approved"
                   /\ StoryContent(r.stories[s]) = StoryContent(stories[s]))
    /\ [][\A s \in 1..Len(stories) :
            HasContent(stories[s]) => HasContent(stories'[s])]_vars

\* C39 witness: a draft story was approved and has no title and no pages
C39_Witness ==
    /\ resp.op = "approve_story" /\ resp.code = 200
    /\ Len(stories) >= 1
    /\ stories[1].status = "approved"
    /\ stories[1].generated_title = None
    /\ get_pages_content(stories[1]) = <<>>


(***************************************************************************)
(* C40                                                                     *)
(***************************************************************************)
\* C40: for every Order in every reachable state the referenced story has a
\* non-empty page sequence and a non-null generated title (the collaborator
\* returning at least one page and a title), so the order's book_title is
\* the story's generated title at creation time and never the
\* "{child name}'s Story" default.
C40_OrderedStoryHasContent ==
    /\ [](\A o \in 1..Len(orders) :
            /\ HasContent(stories[orders[o].story_id])
            /\ orders[o].book_title[1] # "default")
    /\ [][(resp'.op = "create_payment_order" /\ resp'.code = 201) =>
            LET order == orders'[Len(orders')] IN
            /\ Len(orders') = Len(orders) + 1
            /\ stories[order.story_id].generated_title # None
            /\ order.book_title = stories[order.story_id].generated_title]_vars

\* C40 witness: an order was created and carries the generated title of its
\* story
C40_Witness ==
    /\ resp.op = "create_payment_order" /\ resp.code = 201
    /\ Len(orders) >= 1
    /\ stories[orders[1].story_id].generated_title # None
    /\ orders[1].book_title = stories[orders[1].story_id].generated_title
    /\ get_pages_content(stories[orders[1].story_id]) # <<>>

====
